---- MODULE Spec2Model ----
(***************************************************************************)
(* Model of the transaction pipeline of PersonalFinanceTracking:           *)
(*   backend/services/categorize.py  (normalize_merchant,                  *)
(*                                    heuristic_category)                  *)
(*   backend/services/hashutil.py    (txn_dedupe_hash)                     *)
(*   backend/services/import_csv.py  (parse_csv_and_build_docs,            *)
(*                                    bulk_upsert_transactions)            *)
(*   backend/services/rules.py       (Rule.matches, Rule.apply, pick_rule) *)
(*                                                                         *)
(* Text is a sequence of one-character strings.  A Python value is a       *)
(* tagged record: None, PyStr(s), PyInt(i) or PyFloat(neg, mag), a float being  *)
(* held in thousandths.  A call that raises yields the value Raised.               *)
(***************************************************************************)
EXTENDS Integers, Sequences, FiniteSets, Bags, TLC

VARIABLES
    desc,        \* normalize_merchant: the argument
    m,           \* normalize_merchant: the value returned for desc
    m2,          \* normalize_merchant: the value returned for m
    npc,         \* normalizer run: "start", "once", "twice"
    store,       \* db.transactions: a bag of documents
    job,         \* job[j]: the j-th import call (parse, then bulk upsert)
    rules,       \* pick_rule: the rule documents supplied
    txn,         \* pick_rule: the transaction supplied
    picked,      \* pick_rule: what the call gave (Unset before the call)
    verdicts,    \* Rule(r).matches(txn) for every r of rules
    rpc,         \* rule run: "start", "matched", "picked", "applied", "reapplied"
    heap,        \* Rule.apply: the objects by address, the input dict at 1
    out,         \* Rule.apply: address of the dict returned for the input
    out2,        \* Rule.apply: address of the dict returned for out
    fn,          \* a single call: the function called
    args,        \* a single call: its arguments
    ret,         \* a single call: what it returned (Unset before the call)
    users,       \* db.users of server.py, in insertion order
    accounts,    \* db.accounts: documents (user_id, name)
    categories,  \* db.categories: documents (user_id, name)
    transactions,\* db.transactions of server.py: documents (user_id, description)
    tokens,      \* the access tokens issued so far
    reg,         \* reg[p]: the p-th register request and its response
    resp         \* the response to the last login, protected or admin request

normVars == <<desc, m, m2, npc>>
importVars == <<store, job>>
ruleVars == <<rules, txn, picked, verdicts, rpc>>
applyVars == <<heap, out, out2>>
callVars == <<fn, args, ret>>
authVars == <<users, accounts, categories, transactions, tokens, reg, resp>>
vars == <<desc, m, m2, npc, store, job, rules, txn, picked, verdicts, rpc,
          heap, out, out2, fn, args, ret,
          users, accounts, categories, transactions, tokens, reg, resp>>

-----------------------------------------------------------------------------
(* Python values *)

None == [t |-> "None"]
Raised == [t |-> "Raised"]
Unset == [t |-> "Unset"]
PyStr(s) == [t |-> "str", s |-> s]
PyInt(i) == [t |-> "int", i |-> i]
\* a float: sign bit and magnitude in thousandths (-0.0 is neg with mag 0)
PyFloat(neg, mag) == [t |-> "float", neg |-> neg, mag |-> mag]
FloatOf(x) == PyFloat(x < 0, IF x < 0 THEN -x ELSE x)

\* bool(v): None, "", 0 and 0.0 are falsy
Truthy(v) ==
    CASE v.t = "None" -> FALSE
      [] v.t = "str" -> v.s # <<>>
      [] v.t = "int" -> v.i # 0
      [] v.t = "float" -> v.mag # 0
      [] OTHER -> TRUE

\* a or b
Or(a, b) == IF Truthy(a) THEN a ELSE b

-----------------------------------------------------------------------------
(* Characters *)

LOWER == <<"a","b","c","d","e","f","g","h","i","j","k","l","m",
           "n","o","p","q","r","s","t","u","v","w","x","y","z">>
UPPER == <<"A","B","C","D","E","F","G","H","I","J","K","L","M",
           "N","O","P","Q","R","S","T","U","V","W","X","Y","Z">>
DIGITS == <<"0","1","2","3","4","5","6","7","8","9">>
BACKSLASH == "\\"
WHITESPACE == {" ", "\t", "\n", "\r", "\f"}

IsLower(c) == \E i \in DOMAIN LOWER : LOWER[i] = c
IsUpper(c) == \E i \in DOMAIN UPPER : UPPER[i] = c
IsLetter(c) == IsLower(c) \/ IsUpper(c)
IsDigit(c) == \E i \in DOMAIN DIGITS : DIGITS[i] = c
IsSpace(c) == c \in WHITESPACE

UpperChar(c) ==
    IF IsLower(c) THEN UPPER[CHOOSE i \in DOMAIN LOWER : LOWER[i] = c] ELSE c
LowerChar(c) ==
    IF IsUpper(c) THEN LOWER[CHOOSE i \in DOMAIN UPPER : UPPER[i] = c] ELSE c

\* str.upper(), str.lower()
StrUpper(s) == [i \in DOMAIN s |-> UpperChar(s[i])]
StrLower(s) == [i \in DOMAIN s |-> LowerChar(s[i])]

RECURSIVE LStrip(_)
LStrip(s) == IF s # <<>> /\ IsSpace(Head(s)) THEN LStrip(Tail(s)) ELSE s

RECURSIVE RStrip(_)
RStrip(s) ==
    IF s # <<>> /\ IsSpace(s[Len(s)]) THEN RStrip(SubSeq(s, 1, Len(s) - 1)) ELSE s

\* str.strip()
Strip(s) == RStrip(LStrip(s))

\* all texts over alphabet A of length 0..n
TextsUpTo(A, n) == UNION {[1..k -> A] : k \in 0..n}

-----------------------------------------------------------------------------
(* Numbers and text *)

DigitVal(c) == (CHOOSE i \in DOMAIN DIGITS : DIGITS[i] = c) - 1
AllDigits(s) == \A i \in DOMAIN s : IsDigit(s[i])

\* value of a text of decimal digits (0 for the empty text)
RECURSIVE ToNat(_)
ToNat(s) ==
    IF s = <<>> THEN 0 ELSE 10 * ToNat(SubSeq(s, 1, Len(s) - 1)) + DigitVal(s[Len(s)])

\* decimal digits of a natural number
RECURSIVE NatText(_)
NatText(n) ==
    IF n < 10 THEN <<DIGITS[n + 1]>> ELSE NatText(n \div 10) \o <<DIGITS[(n % 10) + 1]>>

\* index of the first "." of s, or 0
FirstDot(s) ==
    IF \E i \in DOMAIN s : s[i] = "."
    THEN CHOOSE i \in DOMAIN s : s[i] = "." /\ \A j \in 1..(i - 1) : s[j] # "."
    ELSE 0

\* thousandths denoted by the fraction digits f (digits past the third are
\* below the model's resolution)
FracThousandths(f) ==
    LET d(i) == IF i <= Len(f) THEN DigitVal(f[i]) ELSE 0
    IN  100 * d(1) + 10 * d(2) + d(3)

\* float(text): [sign] digits [. digits] between optional whitespace, at
\* least one digit; anything else raises ValueError.  (Exponents, inf, nan
\* and digit-group underscores are outside the texts the model draws.)
ParseFloat(s) ==
    LET b == Strip(s)
        signed == b # <<>> /\ Head(b) \in {"+", "-"}
        u == IF signed THEN Tail(b) ELSE b
        dot == FirstDot(u)
        ip == IF dot = 0 THEN u ELSE SubSeq(u, 1, dot - 1)
        fp == IF dot = 0 THEN <<>> ELSE SubSeq(u, dot + 1, Len(u))
    IN  IF AllDigits(ip) /\ AllDigits(fp) /\ Len(ip) + Len(fp) >= 1
        THEN PyFloat(signed /\ Head(b) = "-", 1000 * ToNat(ip) + FracThousandths(fp))
        ELSE Raised

\* float(v)
ToFloat(v) ==
    CASE v.t = "float" -> v
      [] v.t = "int" -> FloatOf(1000 * v.i)
      [] v.t = "str" -> ParseFloat(v.s)
      [] OTHER -> Raised

\* the number a float stands for, in thousandths
Thousandths(f) == IF f.neg THEN -f.mag ELSE f.mag

\* hundredths nearest to mag thousandths; an exact decimal half goes to the
\* even neighbour (the texts the model draws have no third decimal 5, where
\* the binary value decides)
RoundHundredths(mag) ==
    LET q == mag \div 10
        r == mag % 10
    IN  IF r > 5 \/ (r = 5 /\ q % 2 = 1) THEN q + 1 ELSE q

\* f"{x:.2f}": the sign is printed for every negative float, -0.00 included
Format2f(f) ==
    LET h == RoundHundredths(f.mag)
        c == h % 100
    IN  (IF f.neg THEN <<"-">> ELSE <<>>) \o NatText(h \div 100) \o <<".">>
        \o <<DIGITS[(c \div 10) + 1], DIGITS[(c % 10) + 1]>>

\* fraction digits of repr(float): trailing zeros dropped, one digit kept
FracText(k) ==
    IF k = 0 THEN <<"0">>
    ELSE IF k % 100 = 0 THEN <<DIGITS[(k \div 100) + 1]>>
    ELSE IF k % 10 = 0 THEN <<DIGITS[(k \div 100) + 1], DIGITS[((k \div 10) % 10) + 1]>>
    ELSE <<DIGITS[(k \div 100) + 1], DIGITS[((k \div 10) % 10) + 1], DIGITS[(k % 10) + 1]>>

\* str(v)
ToText(v) ==
    CASE v.t = "str" -> v.s
      [] v.t = "int" -> (IF v.i < 0 THEN <<"-">> ELSE <<>>)
                         \o NatText(IF v.i < 0 THEN -v.i ELSE v.i)
      [] v.t = "float" -> (IF v.neg THEN <<"-">> ELSE <<>>)
                           \o NatText(v.mag \div 1000) \o <<".">> \o FracText(v.mag % 1000)
      [] OTHER -> <<"N", "o", "n", "e">>

\* needle occurs in hay as a contiguous run (Python's "in" on str)
Contains(hay, needle) ==
    \E i \in 1..(Len(hay) - Len(needle) + 1) :
        SubSeq(hay, i, i + Len(needle) - 1) = needle

-----------------------------------------------------------------------------
(* categorize.py: normalize_merchant *)

\* the class [^a-zA-Z0-9\\s] of line 15: in the raw string the two
\* backslashes are a literal backslash, and s is the letter s
StripClassKeeps(c) == IsLetter(c) \/ IsDigit(c) \/ c = BACKSLASH

\* number of consecutive "s" at the front of s
RECURSIVE RunOfS(_)
RunOfS(s) == IF s # <<>> /\ Head(s) = "s" THEN 1 + RunOfS(Tail(s)) ELSE 0

\* re.sub(r"\\s+", " ", s) of line 16: the pattern is a literal backslash
\* followed by one or more letters s (greedy, leftmost, non-overlapping)
RECURSIVE SubCollapse(_)
SubCollapse(s) ==
    IF s = <<>> THEN <<>>
    ELSE IF Head(s) = BACKSLASH /\ RunOfS(Tail(s)) >= 1
         THEN <<" ">> \o SubCollapse(SubSeq(s, 2 + RunOfS(Tail(s)), Len(s)))
         ELSE <<Head(s)>> \o SubCollapse(Tail(s))

normalize_merchant(d) ==
    IF ~Truthy(d) THEN None
    ELSE PyStr(StrUpper(Strip(SubCollapse(SelectSeq(d.s, StripClassKeeps)))))

\* COMMON_MERCHANTS, in declaration order.  A pattern is the text pre, or,
\* when two is TRUE, pre, a literal backslash, zero or more letters s, post:
\* in the raw strings "\\s*" is an escaped backslash followed by s*.
\* (?i) makes every pattern case-insensitive.
COMMON_MERCHANTS == <<
    [pre |-> <<"t","r","a","d","e","r">>, two |-> TRUE, post |-> <<"j","o","e">>,
     cat |-> <<"g","r","o","c","e","r","i","e","s">>],
    [pre |-> <<"w","h","o","l","e">>, two |-> TRUE, post |-> <<"f","o","o","d","s">>,
     cat |-> <<"g","r","o","c","e","r","i","e","s">>],
    [pre |-> <<"c","o","s","t","c","o">>, two |-> FALSE, post |-> <<>>,
     cat |-> <<"g","r","o","c","e","r","i","e","s">>],
    [pre |-> <<"n","e","t","f","l","i","x">>, two |-> FALSE, post |-> <<>>,
     cat |-> <<"s","u","b","s","c","r","i","p","t","i","o","n","s">>],
    [pre |-> <<"s","p","o","t","i","f","y">>, two |-> FALSE, post |-> <<>>,
     cat |-> <<"s","u","b","s","c","r","i","p","t","i","o","n","s">>],
    [pre |-> <<"u","b","e","r">>, two |-> TRUE, post |-> <<"e","a","t","s">>,
     cat |-> <<"d","i","n","i","n","g">>],
    [pre |-> <<"m","c","d","o","n","a","l","d">>, two |-> FALSE, post |-> <<>>,
     cat |-> <<"d","i","n","i","n","g">>],
    [pre |-> <<"s","t","a","r","b","u","c","k","s">>, two |-> FALSE, post |-> <<>>,
     cat |-> <<"c","o","f","f","e","e">>] >>

\* re.search(rx, cand) is not None, for rx a COMMON_MERCHANTS pattern
MerchantSearch(rx, cand) ==
    LET low == StrLower(cand)
    IN  IF ~rx.two THEN Contains(low, rx.pre)
        ELSE \E k \in 0..Len(low) :
                Contains(low, rx.pre \o <<BACKSLASH>> \o [i \in 1..k |-> "s"] \o rx.post)

CONF_GUESS == PyFloat(FALSE, 700)
CONF_NONE == PyFloat(FALSE, 0)

\* a categorizer that lets the last matching pattern win
heuristic_category_LastMatch(merchant_norm, description_raw) ==
    LET cand == Or(description_raw, PyStr(<<>>)).s
        hits == {i \in DOMAIN COMMON_MERCHANTS : MerchantSearch(COMMON_MERCHANTS[i], cand)}
    IN  IF hits = {} THEN <<None, CONF_NONE>>
        ELSE <<PyStr(COMMON_MERCHANTS[CHOOSE i \in hits : \A j \in hits : j <= i].cat),
               CONF_GUESS>>

\* categorize.py: heuristic_category, the pair (category, confidence)
heuristic_category(merchant_norm, description_raw) ==
    LET cand == Or(description_raw, PyStr(<<>>)).s
        hits == {i \in DOMAIN COMMON_MERCHANTS : MerchantSearch(COMMON_MERCHANTS[i], cand)}
    IN  IF hits = {} THEN <<None, CONF_NONE>>
        ELSE <<PyStr(COMMON_MERCHANTS[CHOOSE i \in hits : \A j \in hits : i <= j].cat),
               CONF_GUESS>>

-----------------------------------------------------------------------------
(* hashutil.py: txn_dedupe_hash *)

\* the f-string of line 3: an f-string prints None as the text None
DedupeKey(account_id, posted_at, amount, merchant, description_raw) ==
    account_id \o <<"|">> \o ToText(posted_at) \o <<"|">> \o Format2f(amount) \o <<"|">>
    \o Or(merchant, PyStr(<<>>)).s \o <<"|">> \o Or(description_raw, PyStr(<<>>)).s

\* SHA-256 is taken to be collision-free: the digest stands for its preimage
Sha256Hex(key) == [t |-> "sha256", of |-> key]

txn_dedupe_hash(account_id, posted_at, amount, merchant, description_raw) ==
    Sha256Hex(DedupeKey(account_id, posted_at, amount, merchant, description_raw))

-----------------------------------------------------------------------------
(* import_csv.py: parse_csv_and_build_docs *)

\* A CSV file after decoding and csv.reader's tokenising: the header's
\* column names and the cell texts of every later line (<<>> for a blank
\* line).

\* csv.DictReader: row.get(name).  A repeated column name keeps its last
\* cell, a short row leaves None, DictReader's restval.
RowGet(header, row, name) ==
    LET at == {i \in DOMAIN header : header[i] = name}
    IN  IF at = {} THEN None
        ELSE LET i == CHOOSE i \in at : \A j \in at : j <= i
             IN  IF i <= Len(row) THEN PyStr(row[i]) ELSE None

\* line 12: float(row.get("Amount") or row.get("amount") or 0.0)
RowAmount(header, row) ==
    ToFloat(Or(RowGet(header, row, "Amount"),
               Or(RowGet(header, row, "amount"), PyFloat(FALSE, 0))))

\* lines 11-29: the candidate built from one row (RowAmount has not raised)
RowDoc(header, row, tenant_id, account_id, currency) ==
    LET posted_at == Or(RowGet(header, row, "Date"),
                        Or(RowGet(header, row, "Posted"), RowGet(header, row, "posted_at")))
        amount == RowAmount(header, row)
        d == Or(RowGet(header, row, "Description"),
                Or(RowGet(header, row, "Payee"),
                   Or(RowGet(header, row, "Memo"), PyStr(<<>>))))
        merchant_norm == normalize_merchant(d)
        guess == heuristic_category(merchant_norm, d)
    IN  [tenantId |-> tenant_id,
         accountId |-> account_id,
         postedAt |-> posted_at,
         amount |-> amount,
         currency |-> currency,
         merchant |-> merchant_norm,
         descriptionRaw |-> d,
         categoryId |-> guess[1],
         categoryConfidence |-> guess[2],
         isPending |-> FALSE,
         dedupeHash |-> txn_dedupe_hash(account_id, posted_at, amount, merchant_norm, d)]

\* the rows DictReader yields: blank lines are skipped
DataRows(file) == SelectSeq(file.rows, LAMBDA r : r # <<>>)

\* float() raises ValueError on some row of the file
ParseRaises(file) ==
    \E i \in DOMAIN DataRows(file) : RowAmount(file.header, DataRows(file)[i]) = Raised

\* the list returned, or Raised when float() raises ValueError on some row:
\* nothing catches it, so the call ends with no list at all
parse_csv_and_build_docs(file, tenant_id, account_id, currency) ==
    LET rows == DataRows(file)
    IN  IF ParseRaises(file)
        THEN Raised
        ELSE [i \in DOMAIN rows |->
                RowDoc(file.header, rows[i], tenant_id, account_id, currency)]

-----------------------------------------------------------------------------
(* import_csv.py: bulk_upsert_transactions, against db.transactions *)

\* the key of the unique index uniq_tenant_account_dedupe on transactions
\* (apply_mongo_schema.py, line 13)
IndexKey(d) == <<d.tenantId, d.accountId, d.dedupeHash>>

\* a filter that leaves the fingerprint out
Filter_WithoutHash(d) == [tenantId |-> d.tenantId, accountId |-> d.accountId]

\* a filter that leaves the tenant out
Filter_WithoutTenant(d) == [accountId |-> d.accountId, dedupeHash |-> d.dedupeHash]

\* the filter of line 36: the values a stored document must equal
Filter(d) == [tenantId |-> d.tenantId, accountId |-> d.accountId, dedupeHash |-> d.dedupeHash]

Docs(s) == BagToSet(s)
StoredKeys(s) == {IndexKey(r) : r \in Docs(s)}

\* the documents of s the filter f selects
Matching(s, f) == {r \in Docs(s) : \A k \in DOMAIN f : r[k] = f[k]}

\* the unique index admits d into s
UniqueIndexAllows(s, d) == IndexKey(d) \notin StoredKeys(s)

\* a plain insert of d: the unique index rejects a stored key
UpdateOne_InsertOnly(s, d) ==
    IF IndexKey(d) \notin {IndexKey(r) : r \in BagToSet(s)}
    THEN [store |-> s (+) SetToBag({d}), upserted |-> 1, matched |-> 0, modified |-> 0,
          errors |-> 0]
    ELSE [store |-> s, upserted |-> 0, matched |-> 0, modified |-> 0, errors |-> 1]

\* an upsert with $set in place of $setOnInsert: a match is overwritten by d
UpdateOne_Set(s, d) ==
    LET hit == {r \in BagToSet(s) : IndexKey(r) = IndexKey(d)}
    IN  IF hit # {}
        THEN [store |-> SetToBag((BagToSet(s) \ hit) \cup {d}), upserted |-> 0,
              matched |-> 1, modified |-> IF d \in hit THEN 0 ELSE 1, errors |-> 0]
        ELSE [store |-> s (+) SetToBag({d}), upserted |-> 1, matched |-> 0,
              modified |-> 0, errors |-> 0]

\* an update without upsert=True: no match, nothing stored
UpdateOne_NoUpsert(s, d) ==
    IF {r \in BagToSet(s) : IndexKey(r) = IndexKey(d)} # {}
    THEN [store |-> s, upserted |-> 0, matched |-> 1, modified |-> 0, errors |-> 0]
    ELSE [store |-> s, upserted |-> 0, matched |-> 0, modified |-> 0, errors |-> 0]

\* One UpdateOne(filter, {"$setOnInsert": d}, upsert=True), atomic on its
\* key under the unique index.  A match leaves the stored document as it is
\* (nothing is $set, so nothing counts as modified); no match inserts d.
UpdateOne(s, d) ==
    IF Matching(s, Filter(d)) # {}
    THEN [store |-> s, upserted |-> 0, matched |-> 1, modified |-> 0, errors |-> 0]
    ELSE IF UniqueIndexAllows(s, d)
    THEN [store |-> s (+) SetToBag({d}), upserted |-> 1, matched |-> 0, modified |-> 0,
          errors |-> 0]
    ELSE [store |-> s, upserted |-> 0, matched |-> 0, modified |-> 0, errors |-> 1]

-----------------------------------------------------------------------------
(* Import calls: parse_csv_and_build_docs, then bulk_upsert_transactions *)

MaxJobs == 2
Jobs == 1..MaxJobs

Tenants == {<<"t","1">>, <<"t","2">>}
Accounts == {<<"a","1">>}
Currencies == {<<"U","S","D">>, <<"E","U","R">>}

DAY1 == <<"3","/","1">>
DAY2 == <<"3","/","2">>

\* two rows with distinct fingerprints
FileCoffee ==
    [header |-> <<"Date", "Amount", "Description">>,
     rows |-> << <<DAY1, <<"-","1","2",".","5","0">>,
                   <<"S","T","A","R","B","U","C","K","S"," ","#","1">> >>,
                 <<DAY2, <<"7">>, <<"j","o","e">> >> >>]
\* two rows whose amounts differ past the hundredths
FileRounding ==
    [header |-> <<"Date", "Amount", "Description">>,
     rows |-> << <<DAY1, <<"1","0",".","0","0","1">>, <<"a","b">> >>,
                 <<DAY1, <<"1","0",".","0","0","4">>, <<"a","b">> >> >>]
\* a row whose amount is no number, then a good row
FileBadAmount ==
    [header |-> <<"Date", "Amount", "Description">>,
     rows |-> << <<DAY1, <<"x","1">>, <<"a","b">> >>,
                 <<DAY2, <<"7">>, <<"a","b">> >> >>]
\* other aliases, an empty amount, a blank line and a short row
FileSparse ==
    [header |-> <<"Posted", "amount", "Memo">>,
     rows |-> << <<DAY1, <<>>, <<"a"," ","b">> >>,
                 <<>>,
                 <<DAY2>> >>]
\* a header and no rows
FileEmpty ==
    [header |-> <<"Date", "Amount", "Description">>, rows |-> <<>>]

STARBUCKS == <<"S","T","A","R","B","U","C","K","S">>
DATE_0301 == <<"2","0","2","4","-","0","3","-","0","1">>
\* Date,Amount,Description / 2024-03-01,-12.50,STARBUCKS #123
FileStarbucks ==
    [header |-> <<"Date", "Amount", "Description">>,
     rows |-> << << DATE_0301,
                    <<"-","1","2",".","5","0">>,
                    STARBUCKS \o <<" ","#","1","2","3">> >> >>]

\* every alias as a column; the second row leaves the first alias of each
\* field empty
FileAliases ==
    [header |-> <<"Date", "Posted", "Amount", "amount", "Description", "Payee">>,
     rows |-> << <<DAY1, DAY2, <<"7">>, <<"9">>, <<"a","b">>, <<"j","o","e">> >>,
                 << <<>>, DAY2, <<>>, <<"9">>, <<>>, <<"j","o","e">> >> >>]

\* the uploads the import calls draw, by name
Files == {"coffee", "rounding", "bad_amount", "sparse", "empty"}
FileOf(name) ==
    CASE name = "coffee" -> FileCoffee
      [] name = "rounding" -> FileRounding
      [] name = "bad_amount" -> FileBadAmount
      [] name = "sparse" -> FileSparse
      [] name = "starbucks" -> FileStarbucks
      [] name = "aliases" -> FileAliases
      [] OTHER -> FileEmpty

\* the calls the model draws and what parse_csv_and_build_docs returns for
\* each, evaluated once
Calls == Files \X Tenants \X Accounts \X Currencies
ParsedCalls ==
    {<<c, parse_csv_and_build_docs(FileOf(c[1]), c[2], c[3], c[4])>> : c \in Calls}
Parsed(c) == (CHOOSE p \in ParsedCalls : p[1] = c)[2]

IdleJob ==
    [pc |-> "idle", file |-> "empty", tenant_id |-> <<>>, account_id |-> <<>>,
     currency |-> <<>>, ops |-> {}, known |-> {},
     upserts |-> 0, matched |-> 0, modified |-> 0, errors |-> 0]

\* the list parse_csv_and_build_docs returned to job j (docs of lines 27-28
\* of app.py), or Raised
DocsOf(j) == Parsed(<<job[j].file, job[j].tenant_id, job[j].account_id, job[j].currency>>)

Started(j) == job[j].pc # "idle"
Writing(j) == job[j].pc = "writing"

\* the call of job j: parse, then build the operations of the bulk write.
\* A raising parse ends the call ("failed"); an empty list returns the
\* all-zero counts without a write.  known records which candidates' keys
\* the store held when the call was made.
ImportCsv(j, file, tenant_id, account_id, currency) ==
    /\ ~Started(j)
    /\ j > 1 => Started(j - 1)
    /\ LET docs == Parsed(<<file, tenant_id, account_id, currency>>)
           call == [IdleJob EXCEPT !.file = file, !.tenant_id = tenant_id,
                                   !.account_id = account_id,
                                   !.currency = currency]
       IN  job' = [job EXCEPT ![j] =
                IF docs = Raised THEN [call EXCEPT !.pc = "failed"]
                ELSE IF docs = <<>> THEN [call EXCEPT !.pc = "done"]
                ELSE [call EXCEPT !.pc = "writing", !.ops = DOMAIN docs,
                                  !.known = {i \in DOMAIN docs :
                                                IndexKey(docs[i]) \in StoredKeys(store)}]]
    /\ UNCHANGED store
    /\ UNCHANGED <<authVars, normVars, ruleVars, applyVars, callVars>>

\* col.bulk_write(ops, ordered=False): the store applies one pending
\* operation of job j, in any order; after the last one the call returns
\* the counts, or raises BulkWriteError when an operation was rejected
UpsertOne(j, i) ==
    /\ Writing(j)
    /\ i \in job[j].ops
    /\ LET r == UpdateOne(store, DocsOf(j)[i])
           left == job[j].ops \ {i}
           errs == job[j].errors + r.errors
       IN  /\ store' = r.store
           /\ job' = [job EXCEPT ![j].ops = left,
                                 ![j].upserts = @ + r.upserted,
                                 ![j].matched = @ + r.matched,
                                 ![j].modified = @ + r.modified,
                                 ![j].errors = errs,
                                 ![j].pc = IF left # {} THEN "writing"
                                           ELSE IF errs > 0 THEN "write_error"
                                           ELSE "done"]
    /\ UNCHANGED <<authVars, normVars, ruleVars, applyVars, callVars>>

-----------------------------------------------------------------------------
(* rules.py: Rule.matches, pick_rule *)

PyTrue == [t |-> "bool", b |-> TRUE]
PyFalse == [t |-> "bool", b |-> FALSE]

\* dict.get(key, default)
Get(dict, key, default) == IF key \in DOMAIN dict THEN dict[key] ELSE default

\* lines 12-23: one condition against the transaction.  PyTrue lets the
\* loop go on, PyFalse is "return False", Raised is an exception of float()
\* or re.search() that nothing catches.  A regex value is modelled for
\* patterns without metacharacters, where re.search is a substring test.
CondResult(cond, t) ==
    LET val == cond.value
        tv == Or(Get(t, cond.field, None), PyStr(<<>>))
    IN  CASE cond.op = "regex" ->
                IF val.t # "str" THEN Raised
                ELSE IF Contains(ToText(tv), val.s) THEN PyTrue ELSE PyFalse
          [] cond.op = "contains" ->
                IF Contains(StrLower(ToText(tv)), StrLower(ToText(val)))
                THEN PyTrue ELSE PyFalse
          [] cond.op = "gte" ->
                IF ToFloat(tv) = Raised \/ ToFloat(val) = Raised THEN Raised
                ELSE IF Thousandths(ToFloat(tv)) < Thousandths(ToFloat(val))
                THEN PyFalse ELSE PyTrue
          [] cond.op = "lte" ->
                IF ToFloat(tv) = Raised \/ ToFloat(val) = Raised THEN Raised
                ELSE IF Thousandths(ToFloat(tv)) > Thousandths(ToFloat(val))
                THEN PyFalse ELSE PyTrue
          [] OTHER -> PyFalse

\* Rule.matches: the conditions in order, up to the first that does not pass
matches(rule_doc, t) ==
    LET conditions == Get(rule_doc, "conditions", <<>>)
        stops == {i \in DOMAIN conditions : CondResult(conditions[i], t) # PyTrue}
    IN  IF stops = {} THEN PyTrue
        ELSE CondResult(conditions[CHOOSE i \in stops : \A k \in stops : i <= k], t)

\* a constructor with the default of the API schema
PriorityOf_Default100(rule_doc) == Get(rule_doc, "priority", 100)

\* Rule.__init__, line 6
PriorityOf(rule_doc) == Get(rule_doc, "priority", 1000)

\* line 35: the positions of the rules that pass the enabled filter
EnabledAt(rs) == {i \in DOMAIN rs : Get(rs[i], "enabled", TRUE)}

\* line 36: list.sort(key=priority) is stable; position i of the input comes
\* before position k in the sorted list
SortsBefore(rs, i, k) ==
    \/ PriorityOf(rs[i]) < PriorityOf(rs[k])
    \/ PriorityOf(rs[i]) = PriorityOf(rs[k]) /\ i < k

\* lines 35-36: the input positions of the compiled rules, in sorted order
RECURSIVE SortedFrom(_, _)
SortedFrom(rs, left) ==
    IF left = {} THEN <<>>
    ELSE LET i == CHOOSE i \in left : \A k \in left \ {i} : SortsBefore(rs, i, k)
         IN  <<i>> \o SortedFrom(rs, left \ {i})

compiled(rs) == SortedFrom(rs, EnabledAt(rs))

\* lines 37-39: the first compiled rule whose matches is not False decides:
\* it is returned, or its exception leaves pick_rule
pick_rule(rs, t) ==
    LET order == compiled(rs)
        stops == {p \in DOMAIN order : matches(rs[order[p]], t) # PyFalse}
    IN  IF stops = {} THEN None
        ELSE LET p == CHOOSE p \in stops : \A q \in stops : p <= q
             IN  IF matches(rs[order[p]], t) = Raised THEN Raised ELSE rs[order[p]]

-----------------------------------------------------------------------------
(* app.py: RuleDoc, rules_test *)

\* RuleDoc(...).model_dump(): the declared fields, a missing one with the
\* default of lines 17-20
RuleDoc_model_dump(r) ==
    [name |-> r.name,
     priority |-> Get(r, "priority", 100),
     enabled |-> Get(r, "enabled", TRUE),
     conditions |-> Get(r, "conditions", <<>>),
     actions |-> Get(r, "actions", <<>>)]

\* line 33: [r.model_dump() for r in rules], the list pick_rule is given
DumpedRules(rs) == [i \in DOMAIN rs |-> RuleDoc_model_dump(rs[i])]

-----------------------------------------------------------------------------
(* rules.py: Rule.apply *)

\* Objects live in a heap, a sequence indexed by address.  A dict is a
\* function from keys to values; a list value inside a dict is a reference
\* to a list object, so that two dicts can share one list.
Ref(a) == [t |-> "ref", at |-> a]
PyList(items) == [t |-> "list", items |-> items]

\* the dict at address a with every list written out in place
View(h, a) ==
    [k \in DOMAIN h[a] |-> IF h[a][k].t = "ref" THEN h[h[a][k].at] ELSE h[a][k]]

\* returning the input dict itself
DictCopy_Alias(h, a) == [heap |-> h, at |-> a]

\* line 26, out = dict(txn): a new dict with the entries of the one at a;
\* the copy is shallow, a list is shared with the original
DictCopy(h, a) == [heap |-> Append(h, h[a]), at |-> Len(h) + 1]

\* d[key] = v on the dict at address a
SetItem(h, a, key, v) ==
    [h EXCEPT ![a] = [k \in DOMAIN h[a] \cup {key} |-> IF k = key THEN v ELSE h[a][k]]]

\* a set_category that leaves a category already present
SetCategory_KeepGuess(h, o, act) ==
    IF Get(h[o], "categoryId", None) # None THEN h
    ELSE SetItem(h, o, "categoryId", Get(act, "category_id", None))

\* line 29: out["categoryId"] = act.get("category_id")
SetCategory(h, o, act) == SetItem(h, o, "categoryId", Get(act, "category_id", None))

\* a rename_merchant that overwrites the raw description too
RenameMerchant_AndRaw(h, o, act) ==
    SetItem(SetItem(h, o, "merchant", Get(act, "to", None)),
            o, "descriptionRaw", Get(act, "to", None))

\* line 30: out["merchant"] = act.get("to")
RenameMerchant(h, o, act) == SetItem(h, o, "merchant", Get(act, "to", None))

\* out.get("tags") or []: the items of the dict's tags list, none when the
\* key is absent or holds None
TagsOf(h, o) ==
    LET v == Get(h[o], "tags", None)
    IN  IF v.t = "ref" THEN h[v.at].items ELSE <<>>

\* list(S): the elements of a set, each once, in an order the hash seed
\* decides; every order is possible
ListsOf(S) ==
    {f \in [1..Cardinality(S) -> S] : \A i, k \in DOMAIN f : i # k => f[i] # f[k]}

\* an add_tag that appends to the list it finds
AddTag_Append(h, o, act) ==
    {SetItem(Append(h, PyList(Append(TagsOf(h, o), Get(act, "tag", None)))),
             o, "tags", Ref(Len(h) + 1))}

\* lines 31-32: tags = set(out.get("tags") or []); tags.add(act.get("tag"));
\* out["tags"] = list(tags).  The list is a new object.  The heaps that can
\* result, one for every order of the list.
AddTag(h, o, act) ==
    LET old == TagsOf(h, o)
        tags == {old[i] : i \in DOMAIN old} \cup {Get(act, "tag", None)}
    IN  {SetItem(Append(h, PyList(items)), o, "tags", Ref(Len(h) + 1)) :
            items \in ListsOf(tags)}

\* lines 28-32: one action on the dict at o; an unknown type does nothing
ApplyAction(h, o, act) ==
    LET t == Get(act, "type", None)
    IN  CASE t = "set_category" -> {SetCategory(h, o, act)}
          [] t = "rename_merchant" -> {RenameMerchant(h, o, act)}
          [] t = "add_tag" -> AddTag(h, o, act)
          [] OTHER -> {h}

\* line 27: the actions in order, from each heap of H
RECURSIVE ApplyActions(_, _, _)
ApplyActions(H, o, acts) ==
    IF acts = <<>> THEN H
    ELSE ApplyActions(UNION {ApplyAction(h, o, Head(acts)) : h \in H}, o, Tail(acts))

\* Rule(rule_doc).apply(txn) for the dict at address a: the address of the
\* dict returned and the heaps the call can leave
apply(h, a, rule_doc) ==
    LET c == DictCopy(h, a)
    IN  [at |-> c.at, heaps |-> ApplyActions({c.heap}, c.at, Get(rule_doc, "actions", <<>>))]

-----------------------------------------------------------------------------
(* Rule evaluation run: pick_rule applied to a rule list and a transaction *)

MaxRules == 3

TRAVEL == <<"T","r","a","v","e","l">>
GteAmount100 == [field |-> "amount", op |-> "gte", value |-> PyInt(100)]
LteAmount100 == [field |-> "amount", op |-> "lte", value |-> PyInt(100)]
GteAmountText == [field |-> "amount", op |-> "gte", value |-> PyStr(<<"x">>)]
ContainsTravel ==
    [field |-> "category", op |-> "contains", value |-> PyStr(<<"t","r","a","v","e","l">>)]
RegexTravel == [field |-> "category", op |-> "regex", value |-> PyStr(TRAVEL)]
EqAmount == [field |-> "amount", op |-> "eq", value |-> PyInt(50)]

ConditionLists ==
    { <<>>,
      <<GteAmount100>>,
      <<LteAmount100>>,
      <<GteAmountText>>,
      <<ContainsTravel>>,
      <<EqAmount>>,
      <<GteAmount100, ContainsTravel>>,
      <<RegexTravel, GteAmount100>> }

Priorities == {1, 2}

\* a rule document as /rules/test passes it (RuleDoc.model_dump()), named
\* after its position in the list
RuleNames == <<<<"r","1">>, <<"r","2">>, <<"r","3">>, <<"r","4">>>>
\* a disabled rule is dropped before its conditions are read, so one
\* condition list is drawn for it
RuleShapes ==
    [priority : Priorities, enabled : {TRUE}, conditions : ConditionLists]
    \cup [priority : Priorities, enabled : {FALSE}, conditions : {<<>>}]
RuleDocAt(i, shape) ==
    [name |-> RuleNames[i], priority |-> shape.priority, enabled |-> shape.enabled,
     conditions |-> shape.conditions, actions |-> <<>>]
\* the rule list whose i-th document has shape f[i]
RuleListOf(f) == [i \in DOMAIN f |-> RuleDocAt(i, f[i])]

Txns ==
    { [amount |-> PyInt(50), category |-> PyStr(TRAVEL)],
      [amount |-> PyInt(150), category |-> PyStr(TRAVEL)],
      [amount |-> PyFloat(FALSE, 0), category |-> PyStr(TRAVEL)],
      [amount |-> PyStr(<<"1","5","0">>), category |-> PyStr(<<"t","r","a","v","e","l">>)],
      [amount |-> PyStr(<<"a","b","c">>), category |-> PyStr(TRAVEL)],
      [category |-> PyStr(TRAVEL)] }

-----------------------------------------------------------------------------
(* Rule application run: pick_rule, then apply on the transaction, then
   apply on what it returned *)

MaxApplyRules == 2

T1 == <<"t","1">>
ACCT1 == <<"a","c","c","t","1">>
USD == <<"U","S","D">>
DINING_OUT == PyStr(<<"d","i","n","i","n","g","-","o","u","t">>)
GROCERIES == PyStr(<<"g","r","o","c","e","r","i","e","s">>)
SBUX == PyStr(<<"S","B","U","X">>)
TagA == PyStr(<<"a">>)
TagB == PyStr(<<"b">>)
TagX == PyStr(<<"x">>)

\* a candidate of parse_csv_and_build_docs as the dict the rule engine
\* reads: every value a Python value
AsTxn(d) ==
    [tenantId |-> PyStr(d.tenantId), accountId |-> PyStr(d.accountId),
     postedAt |-> d.postedAt, amount |-> d.amount, currency |-> PyStr(d.currency),
     merchant |-> d.merchant, descriptionRaw |-> d.descriptionRaw,
     categoryId |-> d.categoryId, categoryConfidence |-> d.categoryConfidence,
     isPending |-> IF d.isPending THEN PyTrue ELSE PyFalse, dedupeHash |-> d.dedupeHash]

\* the transaction ingested from FileStarbucks for tenant t1, account acct1
StarbucksTxn == AsTxn(parse_csv_and_build_docs(FileStarbucks, T1, ACCT1, USD)[1])
\* a hypothetical transaction without a category
PlainTxn == [merchant |-> PyStr(<<"J","O","E">>), categoryId |-> None,
             amount |-> PyInt(7)]

\* the heap of a transaction d without tags, with tags None, with a tags list
Untagged(d) == <<d>>
TaggedNone(d) == <<SetItem(<<d>>, 1, "tags", None)[1]>>
Tagged(d, items) == <<SetItem(<<d>>, 1, "tags", Ref(2))[1], PyList(items)>>

TagLists == {<<>>, <<TagA>>, <<TagB, TagA>>, <<TagA, TagA>>}
ApplyHeaps ==
    UNION {{Untagged(d), TaggedNone(d)} \cup {Tagged(d, items) : items \in TagLists} :
            d \in {StarbucksTxn, PlainTxn}}

SetDiningOut == [type |-> "set_category", category_id |-> DINING_OUT]
SetGroceries == [type |-> "set_category", category_id |-> GROCERIES]
RenameSbux == [type |-> "rename_merchant", to |-> SBUX]
AddTagA == [type |-> "add_tag", tag |-> TagA]
AddTagX == [type |-> "add_tag", tag |-> TagX]
Notify == [type |-> "notify", to |-> SBUX]

ActionLists ==
    { <<>>,
      <<SetDiningOut>>,
      <<RenameSbux>>,
      <<AddTagA>>,
      <<AddTagX>>,
      <<Notify>>,
      <<SetGroceries, SetDiningOut>>,
      <<AddTagX, Notify, RenameSbux, SetDiningOut>> }

ContainsStarbucks == [field |-> "merchant", op |-> "contains", value |-> PyStr(STARBUCKS)]

ApplyRuleShapes == [conditions : {<<>>, <<ContainsStarbucks>>}, actions : ActionLists]
\* every rule of this run has priority 10, so the list order decides
ApplyRuleDocAt(i, shape) ==
    [name |-> RuleNames[i], priority |-> 10, enabled |-> TRUE,
     conditions |-> shape.conditions, actions |-> shape.actions]
ApplyRuleListOf(f) == [i \in DOMAIN f |-> ApplyRuleDocAt(i, f[i])]

-----------------------------------------------------------------------------
(* Single calls of parse_csv_and_build_docs, heuristic_category and
   txn_dedupe_hash (the last one twice, on two argument tuples) *)

\* what a call returned; a call that raises leaves Raised
Returned(v) == [t |-> "returned", v |-> v]

ParseArgs ==
    (Files \cup {"starbucks", "aliases"}) \X (Tenants \cup {T1}) \X (Accounts \cup {ACCT1}) \X Currencies

\* descriptions: up to MaxWords words of the pool, joined by one space
MaxWords == 2
DescWords ==
    { <<"c","o","s","t","c","o">>,
      <<"N","E","T","F","L","I","X">>,
      <<"T","r","a","d","e","r"," ","J","o","e">>,
      <<"w","h","o","l","e"," "," ","f","o","o","d","s">>,
      <<"U","B","E","R","E","A","T","S">>,
      <<"t","r","a","d","e","r",BACKSLASH,"s","j","o","e">>,
      <<"u","b","e","r",BACKSLASH,"e","a","t","s">>,
      STARBUCKS,
      <<"x","y","z">> }
RECURSIVE JoinWords(_)
JoinWords(ws) ==
    IF ws = <<>> THEN <<>>
    ELSE IF Len(ws) = 1 THEN ws[1]
    ELSE ws[1] \o <<" ">> \o JoinWords(Tail(ws))
Descriptions ==
    {None} \cup {PyStr(JoinWords(ws)) : ws \in UNION {[1..k -> DescWords] : k \in 0..MaxWords}}
CategorizeArgs == {<<normalize_merchant(d), d>> : d \in Descriptions}

HashAmounts ==
    { PyFloat(FALSE, 10001), PyFloat(FALSE, 10004), PyFloat(FALSE, 10006),
      PyFloat(FALSE, 0), PyFloat(TRUE, 0), PyFloat(TRUE, 1), PyFloat(TRUE, 12500) }
HashArgs ==
    {ACCT1, <<"a","1">>} \X {PyStr(DATE_0301)} \X HashAmounts
    \X {None, PyStr(<<>>), PyStr(<<"X">>)} \X {None, PyStr(<<"Y">>)}

\* rule lists for pick_rule and /rules/test: a rule has a priority below
\* 100, between 100 and 1000, above 1000, or none at all; no rule has
\* conditions, so every enabled rule matches
MaxPlainRules == 2
PlainPriorities == {50, 500, 2000}
PlainRuleAt(i, priority, enabled) ==
    IF priority = 0 THEN [name |-> RuleNames[i], enabled |-> enabled]
    ELSE [name |-> RuleNames[i], priority |-> priority, enabled |-> enabled]
PlainRuleLists ==
    UNION {{[i \in 1..k |-> PlainRuleAt(i, f[i][1], f[i][2])] :
                f \in [1..k -> (PlainPriorities \cup {0}) \X BOOLEAN]} :
           k \in 0..MaxPlainRules}
PickArgs == PlainRuleLists \X {[category |-> PyStr(TRAVEL)]}

-----------------------------------------------------------------------------
(* Normalizer run: normalize_merchant applied to desc, then to its result *)

MaxDescLen == 3
NormChars == {"a", "s", "S", "1", " ", "#", BACKSLASH}
NormInputs == {None} \cup {PyStr(s) : s \in TextsUpTo(NormChars, MaxDescLen)}

-----------------------------------------------------------------------------
(* server.py and create_admin.py: users, tokens, register, login, the
   protected endpoints and the admin endpoints.  Timestamps, the activity
   log and the mock e-mail log are written and never read back by these
   handlers; they are left out. *)

Emails == {"ann@example.com", "bob@example.com"}
MaxRegisters == 2
Registers == 1..MaxRegisters
\* the password every account is created with, and what a login may send
PASSWORD == "p"
Passwords == {PASSWORD, "q"}

\* bcrypt: the salted hash of a password, and its check
hash_password(password) == [bcrypt |-> password]
\* a check that accepts no password
verify_password_Never(password, hashed) == FALSE
verify_password(password, hashed) == hashed.bcrypt = password

\* a JWT signed with JWT_SECRET; it is used within its 24 hours
create_access_token(user_id, email) ==
    [user_id |-> user_id, email |-> email, signed |-> TRUE]
\* a bearer token jwt.decode rejects
FORGED == [user_id |-> 0, email |-> "", signed |-> FALSE]

\* get_current_user: the user_id of the payload, 0 for HTTP 401.  No
\* collection is read.
get_current_user(credentials) ==
    IF credentials.signed THEN credentials.user_id ELSE 0

\* User(email=..., name=...).model_dump() plus the password hash; a user's
\* id (a fresh uuid4) is its position in the collection
UserDoc(id, email, password, is_admin) ==
    [id |-> id, email |-> email, password |-> hash_password(password),
     is_admin |-> is_admin, account_status |-> "active"]

\* db.users.find_one({"email": email}): the position of the first match, 0
\* for None
FindByEmail(us, email) ==
    LET at == {i \in DOMAIN us : us[i].email = email}
    IN  IF at = {} THEN 0 ELSE CHOOSE i \in at : \A k \in at : i <= k

\* db.users.find_one({"id": id})
FindById(us, id) == IF id \in DOMAIN us THEN id ELSE 0

\* an insert into a collection without the index on email
InsertUser_NoIndex(us, doc) == [users |-> Append(us, doc), ok |-> TRUE]

\* db.users.insert_one(doc) under the unique index uniq_email: a stored
\* email raises DuplicateKeyError
InsertUser(us, doc) ==
    IF \E i \in DOMAIN us : us[i].email = doc.email
    THEN [users |-> us, ok |-> FALSE]
    ELSE [users |-> Append(us, doc), ok |-> TRUE]

\* db.users.update_one({"id": id}, {"$set": {field: value}})
SetUserField(us, id, field, value) ==
    [i \in DOMAIN us |-> IF i = id THEN [us[i] EXCEPT ![field] = value] ELSE us[i]]

DEFAULT_ACCOUNTS ==
    {"TD Bank Checking", "TD Bank Savings", "Chase Freedom Credit Card"}
DEFAULT_CATEGORIES ==
    {"Food & Dining", "Transportation", "Bills & Utilities", "Shopping",
     "Entertainment", "Healthcare", "Income", "Other"}
SAMPLE_TRANSACTIONS == {"Grocery Store", "Gas Station", "Salary Deposit"}

\* the documents of a collection that belong to a user
OwnedBy(col, user_id) == {d \in col : d.user_id = user_id}

\* get_admin_user: 401 for a rejected token, 403 unless the token's user is
\* stored with is_admin, else 200.  The account_status is not read.
get_admin_user(us, credentials) ==
    LET user_id == get_current_user(credentials)
    IN  IF user_id = 0 THEN 401
        ELSE IF FindById(us, user_id) = 0 \/ ~us[user_id].is_admin THEN 403
        ELSE 200

\* login: the status of the response; 200 comes with a token
login(us, email, password) ==
    LET u == FindByEmail(us, email)
    IN  IF u = 0 \/ ~verify_password(password, us[u].password) THEN 401
        ELSE IF us[u].account_status = "locked" THEN 403
        ELSE IF us[u].account_status = "deleted" THEN 403
        ELSE 200

Response(op, status, user) == [op |-> op, status |-> status, user |-> user]

IdleRegister == [pc |-> "idle", email |-> "", password |-> "", user_id |-> 0,
                 status |-> 0, token |-> None]

-----------------------------------------------------------------------------
(* Specifications *)

\* an empty database, no request made
AuthIdle ==
    /\ users = <<>>
    /\ accounts = {}
    /\ categories = {}
    /\ transactions = {}
    /\ tokens = {}
    /\ reg = [p \in Registers |-> IdleRegister]
    /\ resp = Response("none", 0, 0)

ImportInit ==
    /\ store = EmptyBag
    /\ job = [j \in Jobs |-> IdleJob]

NormIdle ==
    /\ desc = None
    /\ m = Unset
    /\ m2 = Unset
    /\ npc = "off"

RulesIdle ==
    /\ rules = <<>>
    /\ txn = <<>>
    /\ picked = Unset
    /\ verdicts = <<>>
    /\ rpc = "off"

ApplyIdle ==
    /\ heap = <<>>
    /\ out = 0
    /\ out2 = 0

CallIdle ==
    /\ fn = "none"
    /\ args = <<>>
    /\ ret = Unset

Init == ImportInit /\ NormIdle /\ RulesIdle /\ ApplyIdle /\ CallIdle /\ AuthIdle

StartImport ==
    \E j \in Jobs, file \in Files, tenant_id \in Tenants, account_id \in Accounts,
       currency \in Currencies :
        ImportCsv(j, file, tenant_id, account_id, currency)

\* an import starts only while no other call is writing
StartImportAlone ==
    /\ \A k \in Jobs : ~Writing(k)
    /\ StartImport

Write == \E j \in Jobs : \E i \in job[j].ops : UpsertOne(j, i)

Next == StartImport \/ Write

\* concurrent import calls
Spec == Init /\ [][Next]_vars

NextSequential == StartImportAlone \/ Write

\* import calls one after another
SpecSequential == Init /\ [][NextSequential]_vars

RulesInit ==
    /\ \E k \in 0..MaxRules : \E f \in [1..k -> RuleShapes] : rules = RuleListOf(f)
    /\ txn \in Txns
    /\ picked = Unset
    /\ verdicts = <<>>
    /\ rpc = "start"
    /\ NormIdle
    /\ ImportInit
    /\ AuthIdle
    /\ ApplyIdle
    /\ CallIdle

\* Rule(r).matches(txn), called on every rule document of the list
MatchAll ==
    /\ rpc = "start"
    /\ verdicts' = [i \in DOMAIN rules |-> matches(rules[i], txn)]
    /\ rpc' = "matched"
    /\ UNCHANGED <<rules, txn, picked>>
    /\ UNCHANGED <<authVars, normVars, importVars, applyVars, callVars>>

\* the /rules/test call
PickRule ==
    /\ rpc = "matched"
    /\ picked' = pick_rule(rules, txn)
    /\ rpc' = "picked"
    /\ UNCHANGED <<rules, txn, verdicts>>
    /\ UNCHANGED <<authVars, normVars, importVars, applyVars, callVars>>

RulesNext == MatchAll \/ PickRule

\* one pick_rule call on every drawn rule list and transaction
SpecRules == RulesInit /\ [][RulesNext]_vars

NormInit ==
    /\ desc \in NormInputs
    /\ m = Unset
    /\ m2 = Unset
    /\ npc = "start"
    /\ ImportInit
    /\ AuthIdle
    /\ RulesIdle
    /\ ApplyIdle
    /\ CallIdle

NormalizeOnce ==
    /\ npc = "start"
    /\ m' = normalize_merchant(desc)
    /\ npc' = "once"
    /\ UNCHANGED <<desc, m2>>
    /\ UNCHANGED <<authVars, importVars, ruleVars, applyVars, callVars>>

NormalizeTwice ==
    /\ npc = "once"
    /\ m2' = normalize_merchant(m)
    /\ npc' = "twice"
    /\ UNCHANGED <<desc, m>>
    /\ UNCHANGED <<authVars, importVars, ruleVars, applyVars, callVars>>

NormNext == NormalizeOnce \/ NormalizeTwice

\* normalize_merchant on every drawn description, then on its own result
SpecNormalize == NormInit /\ [][NormNext]_vars

CallsInit ==
    /\ \/ fn = "parse_csv_and_build_docs" /\ args \in ParseArgs
       \/ fn = "heuristic_category" /\ args \in CategorizeArgs
       \/ fn = "txn_dedupe_hash" /\ args \in HashArgs \X HashArgs
       \/ fn = "pick_rule" /\ args \in PickArgs
       \/ fn = "rules_test" /\ args \in PickArgs
    /\ ret = Unset
    /\ NormIdle
    /\ ImportInit
    /\ AuthIdle
    /\ RulesIdle
    /\ ApplyIdle

CallParse ==
    /\ fn = "parse_csv_and_build_docs"
    /\ ret = Unset
    /\ ret' = IF ParseRaises(FileOf(args[1])) THEN Raised
              ELSE Returned(parse_csv_and_build_docs(FileOf(args[1]), args[2], args[3],
                                                     args[4]))
    /\ UNCHANGED <<fn, args>>
    /\ UNCHANGED <<authVars, normVars, importVars, ruleVars, applyVars>>

CallCategorize ==
    /\ fn = "heuristic_category"
    /\ ret = Unset
    /\ ret' = Returned(heuristic_category(args[1], args[2]))
    /\ UNCHANGED <<fn, args>>
    /\ UNCHANGED <<authVars, normVars, importVars, ruleVars, applyVars>>

CallHash ==
    /\ fn = "txn_dedupe_hash"
    /\ ret = Unset
    /\ ret' = Returned([i \in 1..2 |->
                txn_dedupe_hash(args[i][1], args[i][2], args[i][3], args[i][4], args[i][5])])
    /\ UNCHANGED <<fn, args>>
    /\ UNCHANGED <<authVars, normVars, importVars, ruleVars, applyVars>>

\* the rule list pick_rule is given: the documents as the caller wrote them
\* in a direct call, their dumps when they come through POST /rules/test
\* (app.py lines 31-34)
RulesGiven(f, rs) == IF f = "rules_test" THEN DumpedRules(rs) ELSE rs

\* pick_rule(rules, txn), called directly or by the /rules/test handler
CallPickRule ==
    /\ fn \in {"pick_rule", "rules_test"}
    /\ ret = Unset
    /\ \E given \in {RulesGiven(fn, args[1])} : ret' = Returned(pick_rule(given, args[2]))
    /\ UNCHANGED <<fn, args>>
    /\ UNCHANGED <<authVars, normVars, importVars, ruleVars, applyVars>>

CallsNext == CallParse \/ CallCategorize \/ CallHash \/ CallPickRule

\* one call of a service function on every drawn argument tuple
SpecCalls == CallsInit /\ [][CallsNext]_vars

ApplyInit ==
    /\ \E k \in 1..MaxApplyRules : \E f \in [1..k -> ApplyRuleShapes] :
            rules = ApplyRuleListOf(f)
    /\ heap \in ApplyHeaps
    /\ txn = View(heap, 1)
    /\ picked = Unset
    /\ verdicts = <<>>
    /\ rpc = "start"
    /\ out = 0
    /\ out2 = 0
    /\ NormIdle
    /\ ImportInit
    /\ AuthIdle
    /\ CallIdle

\* Rule(picked).apply(txn) on the input dict, when pick_rule gave a rule
Apply ==
    /\ rpc = "picked"
    /\ picked \notin {None, Raised}
    /\ LET r == apply(heap, 1, picked)
       IN  /\ heap' \in r.heaps
           /\ out' = r.at
    /\ rpc' = "applied"
    /\ UNCHANGED <<rules, txn, picked, verdicts, out2>>
    /\ UNCHANGED <<authVars, normVars, importVars, callVars>>

\* Rule(picked).apply(...) on the dict the first call returned
ApplyAgain ==
    /\ rpc = "applied"
    /\ LET r == apply(heap, out, picked)
       IN  /\ heap' \in r.heaps
           /\ out2' = r.at
    /\ rpc' = "reapplied"
    /\ UNCHANGED <<rules, txn, picked, verdicts, out>>
    /\ UNCHANGED <<authVars, normVars, importVars, callVars>>

ApplyNext == MatchAll \/ PickRule \/ Apply \/ ApplyAgain

\* pick_rule on every drawn rule list and transaction, then the picked
\* rule applied twice
SpecApply == ApplyInit /\ [][ApplyNext]_vars

\* POST /auth/register, lines 321-324: the request arrives and find_one
\* looks its email up; a stored email ends it with 400
RegisterFind(p, email, password) ==
    /\ reg[p].pc = "idle"
    /\ p > 1 => reg[p - 1].pc # "idle"
    /\ reg' = [reg EXCEPT ![p] =
            IF FindByEmail(users, email) # 0
            THEN [IdleRegister EXCEPT !.pc = "rejected", !.email = email,
                                      !.password = password, !.status = 400]
            ELSE [IdleRegister EXCEPT !.pc = "checked", !.email = email,
                                      !.password = password]]
    /\ UNCHANGED <<users, accounts, categories, transactions, tokens, resp>>
    /\ UNCHANGED <<normVars, importVars, ruleVars, applyVars, callVars>>

\* lines 326-332: insert_one of the user; DuplicateKeyError is not caught
\* and ends the request with 500
RegisterInsert(p) ==
    /\ reg[p].pc = "checked"
    /\ LET id == Len(users) + 1
           r == InsertUser(users, UserDoc(id, reg[p].email, reg[p].password, FALSE))
       IN  /\ users' = r.users
           /\ reg' = [reg EXCEPT ![p].pc = IF r.ok THEN "inserted" ELSE "error",
                                 ![p].user_id = IF r.ok THEN id ELSE 0,
                                 ![p].status = IF r.ok THEN 0 ELSE 500]
    /\ UNCHANGED <<accounts, categories, transactions, tokens, resp>>
    /\ UNCHANGED <<normVars, importVars, ruleVars, applyVars, callVars>>

\* lines 334-425: the default accounts, the categories, the sample
\* transactions, then the token and the 200 response
RegisterSetUp(p) ==
    /\ reg[p].pc = "inserted"
    /\ LET id == reg[p].user_id
           token == create_access_token(id, reg[p].email)
       IN  /\ accounts' = accounts \cup {[user_id |-> id, name |-> n] : n \in DEFAULT_ACCOUNTS}
           /\ categories' =
                categories \cup {[user_id |-> id, name |-> n] : n \in DEFAULT_CATEGORIES}
           /\ transactions' =
                transactions
                    \cup {[user_id |-> id, description |-> n] : n \in SAMPLE_TRANSACTIONS}
           /\ tokens' = tokens \cup {token}
           /\ reg' = [reg EXCEPT ![p].pc = "done", ![p].status = 200, ![p].token = token]
    /\ UNCHANGED <<users, resp>>
    /\ UNCHANGED <<normVars, importVars, ruleVars, applyVars, callVars>>

\* POST /auth/login, lines 427-455
Login(email, password) ==
    /\ LET status == login(users, email, password)
           u == FindByEmail(users, email)
       IN  /\ tokens' = IF status = 200
                        THEN tokens \cup {create_access_token(u, email)}
                        ELSE tokens
           /\ resp' = Response("login", status, IF status = 401 THEN 0 ELSE u)
    /\ UNCHANGED <<users, accounts, categories, transactions, reg>>
    /\ UNCHANGED <<normVars, importVars, ruleVars, applyVars, callVars>>

\* GET /accounts, lines 498-501; /dashboard, /transactions and /categories
\* depend on get_current_user in the same way
get_accounts(credentials) ==
    /\ LET user_id == get_current_user(credentials)
       IN  resp' = Response("accounts", IF user_id = 0 THEN 401 ELSE 200, user_id)
    /\ UNCHANGED <<users, accounts, categories, transactions, tokens, reg>>
    /\ UNCHANGED <<normVars, importVars, ruleVars, applyVars, callVars>>

\* POST /admin/users/{user_id}/lock, lines 712-747
lock_user_account(credentials, user_id) ==
    /\ LET auth == get_admin_user(users, credentials)
           status == IF auth # 200 THEN auth
                     ELSE IF FindById(users, user_id) = 0 THEN 404
                     ELSE IF users[user_id].is_admin THEN 400
                     ELSE 200
       IN  /\ users' = IF status = 200
                       THEN SetUserField(users, user_id, "account_status", "locked")
                       ELSE users
           /\ resp' = Response("lock", status, user_id)
    /\ UNCHANGED <<accounts, categories, transactions, tokens, reg>>
    /\ UNCHANGED <<normVars, importVars, ruleVars, applyVars, callVars>>

\* POST /admin/users/{user_id}/unlock, lines 749-781
unlock_user_account(credentials, user_id) ==
    /\ LET auth == get_admin_user(users, credentials)
           status == IF auth # 200 THEN auth
                     ELSE IF FindById(users, user_id) = 0 THEN 404
                     ELSE 200
       IN  /\ users' = IF status = 200
                       THEN SetUserField(users, user_id, "account_status", "active")
                       ELSE users
           /\ resp' = Response("unlock", status, user_id)
    /\ UNCHANGED <<accounts, categories, transactions, tokens, reg>>
    /\ UNCHANGED <<normVars, importVars, ruleVars, applyVars, callVars>>

\* DELETE /admin/users/{user_id}, lines 783-823: the soft delete of the
\* user and the hard delete of what the user owns
delete_user_account(credentials, user_id) ==
    /\ LET auth == get_admin_user(users, credentials)
           status == IF auth # 200 THEN auth
                     ELSE IF FindById(users, user_id) = 0 THEN 404
                     ELSE IF users[user_id].is_admin THEN 400
                     ELSE 200
       IN  /\ users' = IF status = 200
                       THEN SetUserField(users, user_id, "account_status", "deleted")
                       ELSE users
           /\ accounts' = IF status = 200 THEN accounts \ OwnedBy(accounts, user_id)
                          ELSE accounts
           /\ transactions' = IF status = 200
                              THEN transactions \ OwnedBy(transactions, user_id)
                              ELSE transactions
           /\ categories' = IF status = 200 THEN categories \ OwnedBy(categories, user_id)
                            ELSE categories
           /\ resp' = Response("delete", status, user_id)
    /\ UNCHANGED <<tokens, reg>>
    /\ UNCHANGED <<normVars, importVars, ruleVars, applyVars, callVars>>

\* create_admin.py, create_admin_account: the run that ends the e-mail
\* loop.  An e-mail of a stored admin, or "n" to the upgrade question, asks
\* for another e-mail; a stored user is upgraded (lines 81-87), a new e-mail
\* gets a new admin (lines 122-133).
create_admin_account(email, password) ==
    /\ LET u == FindByEmail(users, email)
       IN  /\ u # 0 => ~users[u].is_admin
           /\ users' = IF u # 0 THEN SetUserField(users, u, "is_admin", TRUE)
                       ELSE InsertUser(users, UserDoc(Len(users) + 1, email, password,
                                                      TRUE)).users
    /\ UNCHANGED <<accounts, categories, transactions, tokens, reg, resp>>
    /\ UNCHANGED <<normVars, importVars, ruleVars, applyVars, callVars>>

\* the bearer tokens a client can present
Credentials == tokens \cup {FORGED}
\* the user ids a request can name: the stored ones and an unknown one
UserIds == 1..(Len(users) + 1)

Register ==
    \/ \E p \in Registers, email \in Emails : RegisterFind(p, email, PASSWORD)
    \/ \E p \in Registers : RegisterInsert(p)
    \/ \E p \in Registers : RegisterSetUp(p)
LoginRequest == \E email \in Emails, password \in Passwords : Login(email, password)
ProtectedRequest == \E credentials \in Credentials : get_accounts(credentials)
LockRequest ==
    \E credentials \in Credentials, user_id \in UserIds :
        lock_user_account(credentials, user_id)
UnlockRequest ==
    \E credentials \in Credentials, user_id \in UserIds :
        unlock_user_account(credentials, user_id)
DeleteRequest ==
    \E credentials \in Credentials, user_id \in UserIds :
        delete_user_account(credentials, user_id)
CreateAdmin ==
    \E email \in Emails : create_admin_account(email, PASSWORD)

AuthNext ==
    \/ Register
    \/ LoginRequest
    \/ ProtectedRequest
    \/ LockRequest
    \/ UnlockRequest
    \/ DeleteRequest
    \/ CreateAdmin

\* register requests interleaved at their awaits with logins, protected
\* requests, admin requests and create_admin runs
AuthInit == AuthIdle /\ ImportInit /\ NormIdle /\ RulesIdle /\ ApplyIdle /\ CallIdle

SpecAuth == AuthInit /\ [][AuthNext]_vars

-----------------------------------------------------------------------------
(* Claims about ingestion and normalization *)

\* the amount cell of a row as line 12 reads it, before float()
AmountCell(header, row) ==
    Or(RowGet(header, row, "Amount"), RowGet(header, row, "amount"))

\* row i of the upload of job j has a non-empty amount cell that is no number
BadAmountRow(j, i) ==
    LET f == FileOf(job[j].file)
        cell == AmountCell(f.header, DataRows(f)[i])
    IN  Truthy(cell) /\ ParseFloat(cell.s) = Raised

\* C1: a data row whose amount cell is non-empty but no number yields a
\* candidate with amount 0.0; the parse returns one candidate per data row
\* and never raises because of such a row.
C1_BadAmountDefaultsToZero ==
    \A j \in Jobs :
        Started(j) =>
            /\ job[j].pc # "failed"
            /\ DocsOf(j) # Raised
            /\ Len(DocsOf(j)) = Len(DataRows(FileOf(job[j].file)))
            /\ \A i \in DOMAIN DocsOf(j) :
                    BadAmountRow(j, i) => DocsOf(j)[i].amount = PyFloat(FALSE, 0)

\* the normalization the specification describes: drop what is no ASCII
\* letter, digit or whitespace, turn each whitespace run into one space,
\* trim, upper-case
RECURSIVE CollapseWhitespace(_)
CollapseWhitespace(s) ==
    IF s = <<>> THEN <<>>
    ELSE IF IsSpace(Head(s))
         THEN <<" ">> \o CollapseWhitespace(LStrip(s))
         ELSE <<Head(s)>> \o CollapseWhitespace(Tail(s))
KeptBySpec(c) == IsLetter(c) \/ IsDigit(c) \/ IsSpace(c)
NormalizedBySpec(s) == StrUpper(Strip(CollapseWhitespace(SelectSeq(s, KeptBySpec))))

\* C3: for a non-empty description the result is the input without the
\* characters that are no ASCII letter, digit or whitespace, with each
\* whitespace run as one space, trimmed and upper-cased, so the space
\* between two words survives.
C3_NormalizeKeepsWordSpaces ==
    (npc \in {"once", "twice"} /\ Truthy(desc)) => m = PyStr(NormalizedBySpec(desc.s))

\* C4: normalizing a normalized value changes nothing:
\* normalize(normalize(s)) = normalize(s), an absent result being passed
\* back in as absent.
C4_NormalizeIdempotent ==
    npc = "twice" => m2 = m

-----------------------------------------------------------------------------
(* Claims about the upsert sink *)

\* the keys of the candidates of job j
BatchKeys(j) == {IndexKey(DocsOf(j)[i]) : i \in DOMAIN DocsOf(j)}

\* the candidates of job j have pairwise distinct fingerprints
DistinctKeys(j) ==
    \A a, b \in DOMAIN DocsOf(j) : a # b => IndexKey(DocsOf(j)[a]) # IndexKey(DocsOf(j)[b])

\* job j persists the upload an earlier, finished call persisted for the
\* same tenant and account
Repeat(j) ==
    \E k \in 1..(j - 1) :
        /\ job[k].pc = "done"
        /\ job[k].file = job[j].file
        /\ job[k].tenant_id = job[j].tenant_id
        /\ job[k].account_id = job[j].account_id

C5_Counts ==
    \A j \in Jobs :
        (job[j].pc = "done" /\ DistinctKeys(j)) =>
            /\ job[j].known = {} => job[j].upserts = Len(DocsOf(j))
            /\ Repeat(j) => job[j].upserts = 0

C5_Frame ==
    \A j \in Jobs :
        (Writing(j) /\ Repeat(j) /\ DistinctKeys(j) /\ job'[j].ops # job[j].ops)
            => store' = store

\* C5: with calls one after another, persisting N candidates with pairwise
\* distinct fingerprints into a store that holds none of their keys reports
\* N inserts; persisting the candidates of the same upload for the same
\* tenant and account again reports 0 inserts and every write of that
\* second call leaves the store as it was.
C5_DedupeIdempotent == []C5_Counts /\ [][C5_Frame]_vars

\* a two-row upload was persisted twice: 2 inserts, then 0
C5_Witness ==
    /\ job[1].pc = "done" /\ job[2].pc = "done"
    /\ Repeat(2) /\ DistinctKeys(2) /\ Len(DocsOf(2)) = 2
    /\ job[1].known = {} /\ job[1].upserts = 2
    /\ job[2].upserts = 0 /\ job[2].matched = 2

\* C6: under every interleaving of the writes of concurrent calls, the
\* store holds at most one record per (tenantId, accountId, dedupeHash), no
\* call fails on a key conflict, and once no call is writing the stored
\* keys are the union of the keys of the persisted batches.
C6_ConcurrentImportsConverge ==
    /\ \A r \in Docs(store) : CopiesIn(r, store) = 1
    /\ \A r1, r2 \in Docs(store) : IndexKey(r1) = IndexKey(r2) => r1 = r2
    /\ \A j \in Jobs : job[j].pc # "write_error"
    /\ (\A j \in Jobs : ~Writing(j)) =>
            StoredKeys(store) = UNION {BatchKeys(j) : j \in {k \in Jobs : job[k].pc = "done"}}

\* two calls for the same upload and tenant interleaved: each inserted one
\* of the two candidates and matched the other
C6_Witness ==
    /\ job[1].pc = "done" /\ job[2].pc = "done"
    /\ job[1].file = job[2].file /\ job[1].tenant_id = job[2].tenant_id
    /\ job[1].upserts = 1 /\ job[1].matched = 1
    /\ job[2].upserts = 1 /\ job[2].matched = 1
    /\ DistinctKeys(1)

C7_Step ==
    /\ \A r \in Docs(store) : r \in Docs(store') /\ CopiesIn(r, store') = CopiesIn(r, store)
    /\ \A r \in Docs(store') \ Docs(store) :
            /\ IndexKey(r) \notin StoredKeys(store)
            /\ \E j \in Jobs : Writing(j) /\ \E i \in job[j].ops \ job'[j].ops : r = DocsOf(j)[i]

\* C7: a write never changes or removes a record already stored under its
\* key, also when the candidate differs from it in another field; only an
\* absent key gets a record, and that record is the full candidate.
C7_OriginalImportWins == [][C7_Step]_vars

\* a finished call brought a candidate that differs from the record stored
\* under its key, which is the other currency's
C7_Witness ==
    \E j \in Jobs :
        /\ job[j].pc = "done"
        /\ \E i \in DOMAIN DocsOf(j) : \E r \in Docs(store) :
                /\ IndexKey(r) = IndexKey(DocsOf(j)[i])
                /\ r.currency # DocsOf(j)[i].currency

-----------------------------------------------------------------------------
(* Claims about the rule engine *)

\* the field's value as the specification reads it: a missing field is the
\* empty text
FieldValue(t, field) ==
    IF field \in DOMAIN t /\ t[field] # None THEN t[field] ELSE PyStr(<<>>)

\* a gte or lte condition whose field value or own value is no number
CoercionFails(cond, t) ==
    /\ cond.op \in {"gte", "lte"}
    /\ ToFloat(FieldValue(t, cond.field)) = Raised \/ ToFloat(cond.value) = Raised

\* the condition holds, as the specification defines the operators; a
\* failed coercion and an unknown operator are non-matches
CondHolds(cond, t) ==
    LET tv == FieldValue(t, cond.field)
    IN  CASE cond.op = "regex" -> Contains(ToText(tv), cond.value.s)
          [] cond.op = "contains" ->
                Contains(StrLower(ToText(tv)), StrLower(ToText(cond.value)))
          [] cond.op = "gte" ->
                /\ ~CoercionFails(cond, t)
                /\ Thousandths(ToFloat(tv)) >= Thousandths(ToFloat(cond.value))
          [] cond.op = "lte" ->
                /\ ~CoercionFails(cond, t)
                /\ Thousandths(ToFloat(tv)) <= Thousandths(ToFloat(cond.value))
          [] OTHER -> FALSE

AllCondsHold(rule_doc, t) ==
    \A k \in DOMAIN rule_doc.conditions : CondHolds(rule_doc.conditions[k], t)

\* positions of the enabled rules all of whose conditions hold
MatchingAt == {i \in DOMAIN rules : rules[i].enabled /\ AllCondsHold(rules[i], txn)}

\* those of them with the smallest priority
BestAt == {i \in MatchingAt : \A k \in MatchingAt : rules[i].priority <= rules[k].priority}

\* the earliest of the rules at the positions S
EarliestAt(S) == rules[CHOOSE i \in S : \A k \in S : i <= k]

\* an enabled rule has a gte or lte condition that cannot be coerced
SomeCoercionFails ==
    \E i \in DOMAIN rules :
        /\ rules[i].enabled
        /\ \E k \in DOMAIN rules[i].conditions : CoercionFails(rules[i].conditions[k], txn)

\* C2: when a gte or lte condition cannot coerce the field's value or its
\* own value to a number, that rule is a non-match, no error reaches the
\* caller, and the other rules are still evaluated: the enabled matching
\* rule that sorts first is returned, or null when there is none.
C2_CoercionFailureIsNonMatch ==
    (rpc = "picked" /\ SomeCoercionFails) =>
        /\ picked # Raised
        /\ picked = IF MatchingAt = {} THEN None ELSE EarliestAt(BestAt)

\* C8: pick_rule returns a rule only if it is enabled and all its conditions
\* match, the returned rule has the smallest priority among the enabled
\* matching rules, and the result is null exactly when no enabled rule
\* matches.
C8_PickedIsBestEnabledMatch ==
    rpc = "picked" =>
        /\ picked = None <=> MatchingAt = {}
        /\ picked # None => \E i \in BestAt : picked = rules[i]

\* C9: when two or more enabled matching rules share the smallest priority
\* among the matching rules, the one earliest in the supplied list is
\* returned.
C9_EqualPriorityKeepsInputOrder ==
    (rpc = "picked" /\ Cardinality(BestAt) >= 2) => picked = EarliestAt(BestAt)

\* C10: a rule matches exactly when every one of its conditions holds; one
\* failing condition, at any position, makes it a non-match, and a rule
\* without conditions matches every transaction.
C10_MatchesIsConjunction ==
    rpc \in {"matched", "picked"} =>
        \A i \in DOMAIN rules :
            verdicts[i] = IF AllCondsHold(rules[i], txn) THEN PyTrue ELSE PyFalse

\* the rule has one condition, a gte or lte on a field the transaction holds
\* as a number, against a numeric value
NumericOnly(rule_doc, t) ==
    /\ Len(rule_doc.conditions) = 1
    /\ rule_doc.conditions[1].op \in {"gte", "lte"}
    /\ rule_doc.conditions[1].field \in DOMAIN t
    /\ t[rule_doc.conditions[1].field].t \in {"int", "float"}
    /\ rule_doc.conditions[1].value.t \in {"int", "float"}

\* C11: for a field holding a number n, 0 included, and a numeric condition
\* value v, gte matches exactly when n >= v and lte exactly when n <= v.
C11_NumericComparison ==
    rpc \in {"matched", "picked"} =>
        \A i \in DOMAIN rules :
            NumericOnly(rules[i], txn) =>
                LET cond == rules[i].conditions[1]
                    n == Thousandths(ToFloat(txn[cond.field]))
                    v == Thousandths(ToFloat(cond.value))
                    holds == IF cond.op = "gte" THEN n >= v ELSE n <= v
                IN  verdicts[i] = IF holds THEN PyTrue ELSE PyFalse

\* the operators Rule.matches knows
KnownOps == {"regex", "contains", "gte", "lte"}

\* the rule has a condition whose operator is none of them
HasUnknownOp(rule_doc) ==
    \E k \in DOMAIN rule_doc.conditions : rule_doc.conditions[k].op \notin KnownOps

\* C15: a rule with a condition of unknown operator is never returned, no
\* error is raised, and pick_rule still returns the first other enabled rule
\* that matches (null when there is none).
C15_UnknownOperatorDenies ==
    (rpc = "picked" /\ \E i \in DOMAIN rules : HasUnknownOp(rules[i])) =>
        /\ picked # Raised
        /\ \A i \in DOMAIN rules : HasUnknownOp(rules[i]) => picked # rules[i]
        /\ picked = IF MatchingAt = {} THEN None ELSE EarliestAt(BestAt)

-----------------------------------------------------------------------------
(* Claims about Rule.apply *)

\* a step in which an apply call returns
ApplyReturns == rpc' \in {"applied", "reapplied"} /\ rpc' # rpc

\* C12: Rule.apply returns a new transaction and leaves its input unchanged
\* in every field, the contents of the input's tags list included: no object
\* that existed before the call is changed by it, and the dict returned is
\* none of them.
C12_Step ==
    ApplyReturns =>
        /\ \A a \in DOMAIN heap : heap'[a] = heap[a]
        /\ (IF rpc' = "applied" THEN out' ELSE out2') \notin DOMAIN heap
        /\ View(heap', 1) = txn
C12_ApplyLeavesInputUnchanged == [][C12_Step]_vars

\* an add_tag gave the result a tags list other than the input's
C12_Witness ==
    /\ rpc = "applied"
    /\ "tags" \in DOMAIN txn
    /\ txn.tags = PyList(<<TagA>>)
    /\ View(heap, out).tags # txn.tags
    /\ View(heap, out).categoryId # txn.categoryId

\* the rule of the override scenario
ScenarioRule ==
    [name |-> RuleNames[1], priority |-> 10, enabled |-> TRUE,
     conditions |-> <<ContainsStarbucks>>, actions |-> <<SetDiningOut>>]

\* positions of the set_category actions of a rule
SetCategoryAt(rule_doc) ==
    {i \in DOMAIN rule_doc.actions : rule_doc.actions[i].type = "set_category"}

\* C13: for the transaction ingested from 2024-03-01,-12.50,STARBUCKS #123
\* (heuristic category coffee) pick_rule with the scenario rule returns that
\* rule and applying it gives categoryId dining-out; in general the selected
\* rule's set_category replaces the category of the transaction.
C13_RuleOverridesHeuristic ==
    /\ (rpc \in {"picked", "applied", "reapplied"} /\ txn = StarbucksTxn
            /\ rules = <<ScenarioRule>>) =>
            /\ txn.categoryId = PyStr(<<"c","o","f","f","e","e">>)
            /\ picked = ScenarioRule
    /\ (rpc \in {"applied", "reapplied"} /\ txn = StarbucksTxn /\ rules = <<ScenarioRule>>) =>
            View(heap, out).categoryId = DINING_OUT
    /\ (rpc \in {"applied", "reapplied"} /\ SetCategoryAt(picked) # {}) =>
            LET last == CHOOSE i \in SetCategoryAt(picked) :
                            \A k \in SetCategoryAt(picked) : k <= i
            IN  View(heap, out).categoryId = picked.actions[last].category_id

C13_Witness ==
    /\ rpc = "applied"
    /\ txn = StarbucksTxn
    /\ rules = <<ScenarioRule>>
    /\ picked = ScenarioRule
    /\ View(heap, out).categoryId = DINING_OUT

\* the action types of a rule
ActionTypes(rule_doc) == {rule_doc.actions[i].type : i \in DOMAIN rule_doc.actions}

\* the dicts o and t agree on key k: both lack it or both hold the same value
SameAt(o, t, k) ==
    /\ (k \in DOMAIN o) <=> (k \in DOMAIN t)
    /\ k \in DOMAIN t => o[k] = t[k]

\* o is t but for the fields the rule's actions may write
Frame(o, t, rule_doc) ==
    \A k \in DOMAIN o \cup DOMAIN t :
        \/ SameAt(o, t, k)
        \/ k = "categoryId" /\ "set_category" \in ActionTypes(rule_doc)
        \/ k = "merchant" /\ "rename_merchant" \in ActionTypes(rule_doc)
        \/ k = "tags" /\ "add_tag" \in ActionTypes(rule_doc)

\* C16: the transaction returned differs from the input at most in
\* categoryId (set_category), merchant (rename_merchant) and tags (add_tag);
\* an action of unknown type changes nothing, so a rule with only such
\* actions, or none, returns a transaction equal to the input.
C16_ApplyFrame ==
    /\ rpc \in {"applied", "reapplied"} => Frame(View(heap, out), txn, picked)
    /\ rpc = "reapplied" => Frame(View(heap, out2), View(heap, out), picked)
    /\ (rpc \in {"applied", "reapplied"}
            /\ ActionTypes(picked) \cap {"set_category", "rename_merchant", "add_tag"} = {})
            => View(heap, out) = txn

\* a rule with an action of unknown type among known ones was applied to
\* the ingested transaction
C16_Witness ==
    /\ rpc = "applied"
    /\ "notify" \in ActionTypes(picked)
    /\ txn = StarbucksTxn
    /\ View(heap, out).merchant = SBUX
    /\ View(heap, out).descriptionRaw = txn.descriptionRaw

\* the tags of a transaction, in list order
TagItems(d) == IF "tags" \in DOMAIN d /\ d.tags.t = "list" THEN d.tags.items ELSE <<>>
TagSet(d) == {TagItems(d)[i] : i \in DOMAIN TagItems(d)}
\* the tags the rule's add_tag actions name
AddedTags(rule_doc) ==
    {rule_doc.actions[i].tag : i \in {k \in DOMAIN rule_doc.actions :
                                        rule_doc.actions[k].type = "add_tag"}}
NoDuplicates(items) == \A i, k \in DOMAIN items : i # k => items[i] # items[k]

\* C17: after apply with an add_tag for tag t the result's tags hold t and
\* every tag of the input, each exactly once (the list is created when the
\* input has none); applying the rule again leaves the set of tags as it is.
C17_AddTagSetSemantics ==
    (rpc \in {"applied", "reapplied"} /\ AddedTags(picked) # {}) =>
        /\ "tags" \in DOMAIN View(heap, out)
        /\ View(heap, out).tags.t = "list"
        /\ AddedTags(picked) \subseteq TagSet(View(heap, out))
        /\ TagSet(txn) \subseteq TagSet(View(heap, out))
        /\ NoDuplicates(TagItems(View(heap, out)))
        /\ rpc = "reapplied" =>
                /\ TagSet(View(heap, out2)) = TagSet(View(heap, out))
                /\ NoDuplicates(TagItems(View(heap, out2)))

\* a tag was added to an input that held another tag twice, and the rule
\* was applied again
C17_Witness ==
    /\ rpc = "reapplied"
    /\ TagItems(txn) = <<TagA, TagA>>
    /\ TagSet(View(heap, out2)) = {TagA, TagX}

-----------------------------------------------------------------------------
(* Claims about single calls *)

ParseReturned == fn = "parse_csv_and_build_docs" /\ ret # Unset
CategorizeReturned == fn = "heuristic_category" /\ ret # Unset
HashReturned == fn = "txn_dedupe_hash" /\ ret # Unset

COFFEE == PyStr(<<"c","o","f","f","e","e">>)
STARBUCKS_123 == PyStr(STARBUCKS \o <<" ","1","2","3">>)
STARBUCKS_RAW == PyStr(STARBUCKS \o <<" ","#","1","2","3">>)

\* C14: the CSV Date,Amount,Description / 2024-03-01,-12.50,STARBUCKS #123
\* for tenant t1 and account acct1 yields exactly one candidate, with
\* merchant "STARBUCKS 123", categoryId coffee, categoryConfidence 0.7,
\* isPending false, amount -12.50 and the fingerprint of (acct1, 2024-03-01,
\* -12.50, that merchant, the raw description).
C14_EndToEndIngestion ==
    (ParseReturned /\ args[1] = "starbucks" /\ args[2] = T1 /\ args[3] = ACCT1) =>
        /\ ret # Raised
        /\ Len(ret.v) = 1
        /\ ret.v[1].merchant = STARBUCKS_123
        /\ ret.v[1].categoryId = COFFEE
        /\ ret.v[1].categoryConfidence = PyFloat(FALSE, 700)
        /\ ret.v[1].isPending = FALSE
        /\ ret.v[1].amount = PyFloat(TRUE, 12500)
        /\ ret.v[1].dedupeHash =
                txn_dedupe_hash(ACCT1, PyStr(DATE_0301), PyFloat(TRUE, 12500),
                                STARBUCKS_123, STARBUCKS_RAW)

\* the patterns of the table that match the description of the call
Hits ==
    LET cand == IF args[2] = None THEN <<>> ELSE args[2].s
    IN  {i \in DOMAIN COMMON_MERCHANTS : MerchantSearch(COMMON_MERCHANTS[i], cand)}

\* C18: heuristic_category returns the category of the earliest pattern of
\* the table that matches the raw description, with confidence 0.7, also
\* when a later pattern matches too; it returns (null, 0.0) exactly when no
\* pattern matches, so the category is null iff the confidence is 0.0.
C18_FirstMatchWins ==
    CategorizeReturned =>
        /\ \A i \in Hits :
                (\A k \in Hits : i <= k) =>
                    ret.v = <<PyStr(COMMON_MERCHANTS[i].cat), PyFloat(FALSE, 700)>>
        /\ Hits = {} <=> ret.v = <<None, PyFloat(FALSE, 0)>>
        /\ ret.v[2] \in {PyFloat(FALSE, 700), PyFloat(FALSE, 0)}
        /\ ret.v[1] = None <=> ret.v[2] = PyFloat(FALSE, 0)

\* a description matching the costco and the netflix pattern, netflix first
\* in the text, gave groceries
C18_Witness ==
    /\ CategorizeReturned
    /\ args[2] = PyStr(<<"N","E","T","F","L","I","X"," ","c","o","s","t","c","o">>)
    /\ Hits = {3, 4}
    /\ ret.v[1] = GROCERIES

\* the amount as a number of hundredths, rounded to two decimal places
RoundedAmount(f) == IF f.neg THEN -RoundHundredths(f.mag) ELSE RoundHundredths(f.mag)

\* absent as the empty string
TextOrEmpty(v) == IF v = None THEN <<>> ELSE v.s

\* two argument tuples agree on the canonical key
SameCanonicalKey(a, b) ==
    /\ a[1] = b[1]
    /\ a[2] = b[2]
    /\ RoundedAmount(a[3]) = RoundedAmount(b[3])
    /\ TextOrEmpty(a[4]) = TextOrEmpty(b[4])
    /\ TextOrEmpty(a[5]) = TextOrEmpty(b[5])

\* C19: two calls of txn_dedupe_hash that agree on accountId, postedAt, the
\* amount rounded to two decimal places, the merchant and the raw
\* description (absent as the empty string) return the same string; so
\* 10.001 and 10.004 give one fingerprint.
C19_FingerprintOfCanonicalKey ==
    (HashReturned /\ SameCanonicalKey(args[1], args[2])) => ret.v[1] = ret.v[2]

\* C20: parse_csv_and_build_docs returns exactly one candidate per data row,
\* in row order, each with isPending false and the tenantId, accountId and
\* currency of the call.
C20_OutputShape ==
    ParseReturned =>
        LET file == FileOf(args[1])
            rows == DataRows(file)
        IN  /\ ret # Raised
            /\ Len(ret.v) = Len(rows)
            /\ \A i \in DOMAIN ret.v :
                    /\ ret.v[i].isPending = FALSE
                    /\ ret.v[i].tenantId = args[2]
                    /\ ret.v[i].accountId = args[3]
                    /\ ret.v[i].currency = args[4]
                    /\ ret.v[i].postedAt =
                            Or(RowGet(file.header, rows[i], "Date"),
                               Or(RowGet(file.header, rows[i], "Posted"),
                                  RowGet(file.header, rows[i], "posted_at")))
                    /\ ret.v[i].descriptionRaw =
                            Or(RowGet(file.header, rows[i], "Description"),
                               Or(RowGet(file.header, rows[i], "Payee"),
                                  Or(RowGet(file.header, rows[i], "Memo"), PyStr(<<>>))))

\* the cell of the first of the aliases that is a column of the header, None
\* when none of them is
RECURSIVE FirstHeaderAlias(_, _, _)
FirstHeaderAlias(header, row, aliases) ==
    IF aliases = <<>> THEN None
    ELSE IF \E i \in DOMAIN header : header[i] = aliases[1]
    THEN RowGet(header, row, aliases[1])
    ELSE FirstHeaderAlias(header, row, Tail(aliases))

DateAliases == <<"Date", "Posted", "posted_at">>
AmountAliases == <<"Amount", "amount">>
DescriptionAliases == <<"Description", "Payee", "Memo">>

\* the text of a cell, None for a cell that is absent or empty
FilledCell(cell) == IF Truthy(cell) THEN cell ELSE None

\* C22: for every row parsed, postedAt is the cell of the first of Date,
\* Posted, posted_at that is a column of the header, amount the number in
\* the cell of the first of Amount, amount (0.0 with no number there), and
\* descriptionRaw the cell of the first of Description, Payee, Memo (the
\* empty string with none), whatever a later alias column of the row holds.
C22_FirstHeaderAliasWins ==
    (ParseReturned /\ ret # Raised) =>
        LET file == FileOf(args[1])
            rows == DataRows(file)
        IN  \A i \in DOMAIN rows :
                LET date == FirstHeaderAlias(file.header, rows[i], DateAliases)
                    amount == FirstHeaderAlias(file.header, rows[i], AmountAliases)
                    d == FirstHeaderAlias(file.header, rows[i], DescriptionAliases)
                IN  /\ FilledCell(ret.v[i].postedAt) = FilledCell(date)
                    /\ ret.v[i].amount =
                            IF Truthy(amount) THEN ToFloat(amount) ELSE PyFloat(FALSE, 0)
                    /\ ret.v[i].descriptionRaw = Or(d, PyStr(<<>>))

-----------------------------------------------------------------------------
(* Further claims about the upsert sink *)

\* the call of job j has returned its counts
Returned_Counts(j) == job[j].pc = "done"

\* the keys of the batch of job j the store did not hold when it was called
NewKeys(j) == BatchKeys(j) \ {IndexKey(DocsOf(j)[i]) : i \in job[j].known}

C23_Counts ==
    \A j \in Jobs :
        Returned_Counts(j) =>
            /\ job[j].upserts = Cardinality(NewKeys(j))
            /\ job[j].upserts + job[j].matched = Len(DocsOf(j))
            /\ job[j].modified = 0
            /\ \A k \in BatchKeys(j) :
                    /\ Cardinality({r \in Docs(store) : IndexKey(r) = k}) = 1
                    /\ \A r \in Docs(store) : IndexKey(r) = k => CopiesIn(r, store) = 1
            /\ Len(DocsOf(j)) = 0 =>
                    job[j].upserts = 0 /\ job[j].matched = 0 /\ job[j].ops = {}

\* the store changes only by a pending operation of a non-empty batch
C23_Writes ==
    store' # store =>
        \E j \in Jobs :
            Writing(j) /\ Len(DocsOf(j)) > 0 /\ job'[j].ops # job[j].ops

\* C23: with calls one after another, bulk_upsert_transactions returns
\* upserts equal to the number of distinct (tenantId, accountId, dedupeHash)
\* keys of the batch the store did not hold before the call, upserts +
\* matched equal to the number of candidates, and modified 0; candidates of
\* one batch that share a fingerprint are stored once; an empty batch
\* returns all-zero counts and no write reaches the store for it.
C23_PersistCounts == []C23_Counts /\ [][C23_Writes]_vars

\* an upload of two rows with one fingerprint was persisted into a store
\* without its key (1 insert, 1 match), and an upload without rows returned
C23_Witness ==
    /\ Returned_Counts(1) /\ Returned_Counts(2)
    /\ Len(DocsOf(1)) = 2 /\ ~DistinctKeys(1) /\ job[1].known = {}
    /\ job[1].upserts = 1 /\ job[1].matched = 1
    /\ Len(DocsOf(2)) = 0

\* the fingerprints of the candidates of job j
BatchHashes(j) == {DocsOf(j)[i].dedupeHash : i \in DOMAIN DocsOf(j)}

\* jobs j and k persisted the same upload for the same account under two
\* tenants
TwoTenants(j, k) ==
    /\ Returned_Counts(j) /\ Returned_Counts(k)
    /\ job[j].file = job[k].file
    /\ job[j].account_id = job[k].account_id
    /\ job[j].tenant_id # job[k].tenant_id

\* a write of job j leaves every record of another tenant as it is and
\* stores none for another tenant
C26_Step ==
    \A j \in Jobs :
        (Writing(j) /\ job'[j].ops # job[j].ops) =>
            \A r \in Docs(store) \cup Docs(store') :
                r.tenantId # job[j].tenant_id => CopiesIn(r, store') = CopiesIn(r, store)

C26_PerTenant ==
    \A j, k \in Jobs :
        (TwoTenants(j, k) /\ DistinctKeys(j)) =>
            /\ BatchHashes(j) = BatchHashes(k)
            /\ Cardinality({r \in Docs(store) : IndexKey(r) \in BatchKeys(j)})
                    = Len(DocsOf(j))
            /\ \A r \in Docs(store) :
                    IndexKey(r) \in BatchKeys(j) => r.tenantId = job[j].tenant_id

\* C26: a write of a call whose candidates carry tenantId A never stores
\* or changes a record of another tenant; after the same upload was
\* persisted for the same account under two tenants, the store holds the N
\* records of each tenant, the fingerprints of the two batches being equal.
C26_TenantIsolation == []C26_PerTenant /\ [][C26_Step]_vars

\* the two-row upload was persisted under both tenants: 2 inserts each
C26_Witness ==
    /\ TwoTenants(1, 2) /\ DistinctKeys(1) /\ Len(DocsOf(1)) = 2
    /\ job[1].upserts = 2 /\ job[2].upserts = 2
    /\ BatchHashes(1) = BatchHashes(2)

-----------------------------------------------------------------------------
(* Further claims about the categorizer *)

\* the two words of pattern rx stand in cand, in any letter case, with zero
\* or more blanks between them (one word for a one-word pattern)
WordsIn(rx, cand) ==
    LET low == StrLower(cand)
    IN  IF ~rx.two THEN Contains(low, rx.pre)
        ELSE \E k \in 0..Len(low) :
                Contains(low, rx.pre \o [i \in 1..k |-> " "] \o rx.post)

\* the two-word patterns of the table: trader joe, whole foods, uber eats
TwoWordPatterns == {i \in DOMAIN COMMON_MERCHANTS : COMMON_MERCHANTS[i].two}

\* C25: heuristic_category returns (groceries, 0.7) for a raw description
\* that contains trader joe or whole foods and (dining, 0.7) for one that
\* contains uber eats, in any letter case and with zero or more whitespace
\* characters between the two words, when no earlier pattern of the table
\* is in the description.
C25_MultiWordPatterns ==
    CategorizeReturned =>
        LET cand == IF args[2] = None THEN <<>> ELSE args[2].s
        IN  \A i \in TwoWordPatterns :
                (/\ WordsIn(COMMON_MERCHANTS[i], cand)
                 /\ \A k \in 1..(i - 1) : ~WordsIn(COMMON_MERCHANTS[k], cand))
                    => ret.v = <<PyStr(COMMON_MERCHANTS[i].cat), PyFloat(FALSE, 700)>>

-----------------------------------------------------------------------------
(* Further claims about the rule engine *)

\* the position of the enabled rule of rs that comes first when a rule
\* without a priority counts as priority default (0 when none is enabled)
FirstWithDefault(rs, default) ==
    LET on == {i \in DOMAIN rs : Get(rs[i], "enabled", TRUE)}
        p(i) == Get(rs[i], "priority", default)
    IN  IF on = {} THEN 0
        ELSE CHOOSE i \in on : \A k \in on \ {i} : p(i) < p(k) \/ (p(i) = p(k) /\ i < k)

\* C24: pick_rule orders a rule without a priority field as priority 1000
\* (after every enabled rule below 1000, before every enabled rule above
\* 1000), while /rules/test orders a rule sent without a priority as
\* priority 100; the rules here all match, so the first in order is picked.
C24_DefaultPriority ==
    /\ (fn = "pick_rule" /\ ret # Unset) =>
            LET i == FirstWithDefault(args[1], 1000)
            IN  ret.v = IF i = 0 THEN None ELSE args[1][i]
    /\ (fn = "rules_test" /\ ret # Unset) =>
            LET i == FirstWithDefault(args[1], 100)
            IN  ret.v = IF i = 0 THEN None ELSE RuleDoc_model_dump(args[1][i])

\* pick_rule got a rule without priority ahead of a rule of priority 500,
\* both enabled, and returned the second
C24_Witness ==
    /\ fn = "pick_rule" /\ ret # Unset
    /\ args[1] = <<[name |-> RuleNames[1], enabled |-> TRUE],
                   [name |-> RuleNames[2], priority |-> 500, enabled |-> TRUE]>>
    /\ ret.v = args[1][2]

-----------------------------------------------------------------------------
(* Claims about registration, login and the admin endpoints *)

\* the names of the documents of a collection a user owns
NamesOwned(col, user_id) == {d.name : d \in OwnedBy(col, user_id)}

\* register request p has just returned 200
RegisterReturns(p) == reg[p].pc = "inserted" /\ reg'[p].pc = "done"

\* request p registered a user who is stored as active
Registered(p) ==
    /\ reg[p].pc = "done"
    /\ users[reg[p].user_id].account_status = "active"

C21_Step ==
    \A p \in Registers :
        /\ RegisterReturns(p) =>
                /\ reg'[p].status = 200
                /\ reg'[p].token \in tokens'
                /\ get_current_user(reg'[p].token) = reg'[p].user_id
                /\ users'[reg'[p].user_id].email = reg'[p].email
                /\ Cardinality(OwnedBy(accounts', reg'[p].user_id)) = 3
                /\ NamesOwned(accounts', reg'[p].user_id) = DEFAULT_ACCOUNTS
                /\ Cardinality(OwnedBy(categories', reg'[p].user_id)) = 8
                /\ NamesOwned(categories', reg'[p].user_id) = DEFAULT_CATEGORIES
        /\ (Registered(p) /\ Login(reg[p].email, reg[p].password)) =>
                /\ resp'.status = 200
                /\ create_access_token(reg[p].user_id, reg[p].email) \in tokens'

\* C21: a register request that returns 200 carries an access token of the
\* new user, who then owns exactly the accounts TD Bank Checking, TD Bank
\* Savings and Chase Freedom Credit Card and the eight default categories;
\* a login with the email and password of the registration returns a token
\* (as long as no admin has locked or deleted the user).
C21_RegistrationSetsUpAccount == [][C21_Step]_vars

\* the first request registered a user, who owns the defaults, and that
\* user's login returned 200
C21_Witness ==
    /\ reg[1].pc = "done" /\ reg[1].status = 200 /\ reg[1].token \in tokens
    /\ NamesOwned(accounts, reg[1].user_id) = DEFAULT_ACCOUNTS
    /\ Cardinality(OwnedBy(categories, reg[1].user_id)) = 8
    /\ resp = Response("login", 200, reg[1].user_id)

C27_OnePerEmail ==
    \A i, k \in DOMAIN users : i # k => users[i].email # users[k].email

\* a request that arrives for a stored email gets 400 and writes nothing;
\* a request that ended without 200 stays ended and has no user
C27_Step ==
    \A p \in Registers :
        /\ (reg[p].pc = "idle" /\ reg'[p].pc # "idle"
                /\ FindByEmail(users, reg'[p].email) # 0) =>
                /\ reg'[p].pc = "rejected" /\ reg'[p].status = 400
                /\ UNCHANGED <<users, accounts, categories, transactions, tokens>>
        /\ reg[p].pc \in {"rejected", "error"} =>
                /\ reg'[p] = reg[p]
                /\ reg[p].user_id = 0 /\ reg[p].token = None

\* C27: under every interleaving of register requests (and of the other
\* requests) db.users holds at most one user per email; a register request
\* for an email that is stored when the request arrives is rejected with
\* 400 and creates no user, account, category or transaction.  (A request
\* that finds the email free and loses the race to insert ends with the
\* uncaught DuplicateKeyError and creates nothing either.)
C27_UniqueEmail == []C27_OnePerEmail /\ [][C27_Step]_vars

\* two register requests for one email ran interleaved: both found the
\* email free, one registered the user, the other failed on the index
C27_Witness ==
    /\ reg[1].email = reg[2].email
    /\ {reg[1].pc, reg[2].pc} = {"done", "error"}
    /\ Cardinality({i \in DOMAIN users : users[i].email = reg[1].email}) = 1

\* C28: while a user is locked, every login of that user is rejected (403
\* with the right password) and issues no token, and every request to a
\* protected endpoint with a token of that user is rejected, also a token
\* issued before the lock.
C28_LockedHasNoAccess ==
    [][\A u \in DOMAIN users :
            users[u].account_status = "locked" =>
                /\ \A password \in Passwords :
                        (FindByEmail(users, users[u].email) = u
                            /\ Login(users[u].email, password)) =>
                            /\ resp'.status \in {401, 403}
                            /\ verify_password(password, users[u].password)
                                    => resp'.status = 403
                            /\ tokens' = tokens
                /\ \A credentials \in tokens :
                        (get_current_user(credentials) = u /\ get_accounts(credentials))
                            => resp'.status # 200]_vars

\* C29: a user whose account_status is deleted keeps that status in every
\* later state, whatever lock, unlock or delete requests follow, and every
\* login of that user is rejected.
C29_DeletionIsTerminal ==
    [][\A u \in DOMAIN users :
            users[u].account_status = "deleted" =>
                /\ users'[u].account_status = "deleted"
                /\ \A password \in Passwords :
                        (FindByEmail(users, users[u].email) = u
                            /\ Login(users[u].email, password)) => resp'.status # 200]_vars

C30_AdminsActive ==
    \A u \in DOMAIN users : users[u].is_admin => users[u].account_status = "active"

C30_Step ==
    \A credentials \in Credentials, u \in DOMAIN users :
        (get_admin_user(users, credentials) = 200 /\ users[u].is_admin
            /\ (lock_user_account(credentials, u) \/ delete_user_account(credentials, u)))
            => /\ resp'.status = 400
               /\ UNCHANGED <<users, accounts, categories, transactions, tokens>>

\* C30: from a database in which every admin is active, after any lock,
\* unlock and delete requests and create_admin runs (the upgrade of a
\* stored user included) every user with is_admin has account_status
\* active; a lock or delete request that names an admin gets 400 and
\* changes nothing.
C30_AdminsNeverLockedOrDeleted == []C30_AdminsActive /\ [][C30_Step]_vars

====
